---- MODULE Spec2Model ----
(***************************************************************************)
(* Credit ledger and job pipeline of the image processor.                  *)
(*                                                                         *)
(* The durable ledger (models/credits.ts), the in-memory fallback ledger   *)
(* (models/creditsFallback), the in-memory job store (models/jobs) and the *)
(* controllers that tie them together (controllers/jobsController.ts,      *)
(* controllers/creditController.ts, routes/jobs.ts).                       *)
(*                                                                         *)
(* Every action is one run of handler code between two suspension points:  *)
(* the completion of the awaited call together with the synchronous        *)
(* continuation that follows it.                                           *)
(***************************************************************************)
EXTENDS Integers, Sequences, FiniteSets, TLC

VARIABLES
    dbUp,                 \* the durable store answers queries
    user_credits,         \* table user_credits: username -> credits | NoRow
    credit_transactions,  \* table credit_transactions, in insertion order
    inMemoryCredits,      \* creditsFallback: Map username -> {credits, role}
    jobs,                 \* models/jobs: Map id -> Job
    detached,             \* Job objects removed from the Map, still referenced
    nextJobId,            \* models/jobs: nextJobId
    reqs,                 \* HTTP requests in flight, one record per slot
    exec,                 \* processJobAsync activations, one per job id
    processing_history,   \* table processing_history
    images_processed,     \* system_stats row images_processed_today
    db_jobs,              \* table s302.jobs: id -> row
    db_jobs_seq,          \* SERIAL of s302.jobs: ids handed out so far
    db_exec,              \* processJobAsync activations over s302.jobs
    initial_credits,      \* history: user_credits at start
    debits,               \* history: job id -> store that took its debit
    refunds,              \* history: job id -> refunds served per store, credits added
    bulk,                 \* history: credits taken by batch-process, per store
    granted,              \* history: credits granted, per store
    grant_log,            \* history: grantCreditsToUser calls and their status
    transitions,          \* history: status changes made by updateJobStatus
    responses,            \* history: job id -> status reported to the submitter
    now,                  \* the clock read by Date.now() and new Date()
    jobsById,             \* models/jobs, second store: Map id -> Job
    created,              \* history: ids returned by createJob of that store
    txs                   \* durable transactions in progress, per connection

vars == <<dbUp, user_credits, credit_transactions, inMemoryCredits, jobs,
          detached, nextJobId, reqs, exec, processing_history,
          images_processed, db_jobs, db_jobs_seq, db_exec, initial_credits,
          debits, refunds, bulk, granted, grant_log, transitions,
          responses, now, jobsById, created, txs>>

ledgerVars == <<user_credits, credit_transactions, inMemoryCredits>>
ledgerHist == <<debits, refunds, bulk, granted, grant_log>>
jobVars == <<jobs, detached, nextJobId, transitions>>
histVars == <<processing_history, images_processed>>
dbJobVars == <<db_jobs, db_jobs_seq, db_exec>>
variantVars == <<now, jobsById, created>>

----------------------------------------------------------------------------
(* Bounds of the model *)

MaxJobs == 2
MaxReqs == 2
MaxBatch == 2
MaxGrants == 1
MaxInitial == 2
MaxUpdates == 2
MaxRejects == 1
MaxAmount == 2
MaxClock == 1
MaxCreated == 3
MaxRandom == 2
MaxTx == 3
MaxPage == 2
MaxPageSize == 2

(* Program constants *)

StarterCredits == 10
AdminCredits == 999999
JobCost == 1

----------------------------------------------------------------------------
(* Users: AuthenticatedUser {username, role} *)

Users == {"admin", "boss", "user1"}

Role(u) == IF u \in {"admin", "boss"} THEN "admin" ELSE "user"

Standard == {u \in Users : Role(u) = "user"}

NoRow == -1000000

ReqIds == 1..MaxReqs

TxIds == 1..MaxTx

\* a connection with no transaction open
NoTx == [pc |-> "idle", username |-> "-", jobId |-> 0, amount |-> 0,
         seen |-> 0]

Idle == [kind |-> "idle", user |-> "-", pc |-> "-", job |-> 0, files |-> 0,
         made |-> <<>>, ok |-> 0]

Zero == [durable |-> 0, fallback |-> 0]

RECURSIVE SumFiles(_)
SumFiles(S) ==
    IF S = {} THEN 0
    ELSE LET r == CHOOSE x \in S : TRUE IN reqs[r].files + SumFiles(S \ {r})

\* Room for n more jobs within MaxJobs, counting the files of requests in flight
Room(n) == (nextJobId - 1) + db_jobs_seq + SumFiles(ReqIds) + n <= MaxJobs

\* request slots are anonymous: a request takes the lowest free slot
FreeSlot(r) == reqs[r] = Idle /\ \A q \in ReqIds : q < r => reqs[q] # Idle

Remove(f, k) == [x \in DOMAIN f \ {k} |-> f[x]]

----------------------------------------------------------------------------
(* models/creditsFallback *)

initializeDefaultUsers(m) ==
    IF DOMAIN m = {}
    THEN ("admin" :> [credits |-> AdminCredits, role |-> "admin"]) @@
         ("user1" :> [credits |-> StarterCredits, role |-> "user"])
    ELSE m

getDefaultCredits(role) == IF role = "admin" THEN AdminCredits ELSE StarterCredits

ensureUser(m, username, role) ==
    IF username \in DOMAIN m THEN m
    ELSE m @@ (username :> [credits |-> getDefaultCredits(role), role |-> role])

\* the Map after getCreditsFallback(username, role)
getCreditsFallback(m, username, role) ==
    ensureUser(initializeDefaultUsers(m), username, role)

\* return value of deductCreditsFallback
deductCreditsFallbackOk(m, username, role, amount) ==
    LET m1 == ensureUser(initializeDefaultUsers(m), username, role)
    IN  m1[username].role = "admin" \/ m1[username].credits >= amount

\* a deductCreditsFallback that reports success and leaves the credits
deductCreditsFallbackKeeps(m, username, role, amount) ==
    ensureUser(initializeDefaultUsers(m), username, role)

\* the Map after deductCreditsFallback(username, role, amount)
deductCreditsFallback(m, username, role, amount) ==
    LET m1 == ensureUser(initializeDefaultUsers(m), username, role)
    IN  IF m1[username].role = "admin" THEN m1
        ELSE IF m1[username].credits < amount THEN m1
        ELSE [m1 EXCEPT ![username].credits = @ - amount]

\* the Map after refundCreditsFallback(username, role, amount)
refundCreditsFallback(m, username, role, amount) ==
    LET m1 == ensureUser(initializeDefaultUsers(m), username, role)
    IN  IF m1[username].role = "admin" THEN m1
        ELSE [m1 EXCEPT ![username].credits = @ + amount]

\* the Map after grantCreditsFallback(username, amount)
grantCreditsFallback(m, username, amount) ==
    LET m1 == ensureUser(initializeDefaultUsers(m), username, "user")
    IN  IF m1[username].role = "admin" THEN m1
        ELSE [m1 EXCEPT ![username].credits = @ + amount]

\* return value of hasEnoughCreditsFallback
hasEnoughCreditsFallback(m, username, requiredAmount) ==
    LET m1 == initializeDefaultUsers(m)
    IN  IF username \notin DOMAIN m1 THEN FALSE
        ELSE m1[username].role = "admin" \/ m1[username].credits >= requiredAmount

\* credits a fallback entry holds; none when there is no entry
FallbackCredits(m, username) ==
    IF username \in DOMAIN m THEN m[username].credits ELSE 0

----------------------------------------------------------------------------
(* models/credits.ts: each function is one transaction (withTransaction) *)

\* deductCredits commits: store up, row present, enough credits
deductCreditsOk(username, amount) ==
    /\ dbUp
    /\ user_credits[username] # NoRow
    /\ user_credits[username] >= amount

\* UPDATE user_credits SET credits = credits + delta WHERE username = ...
UpdateCredits(t, username, delta) ==
    IF username \notin DOMAIN t \/ t[username] = NoRow THEN t
    ELSE [t EXCEPT ![username] = @ + delta]

\* a row of credit_transactions; job_id 0 is NULL
Row(username, jobId, amount, type, description) ==
    [username |-> username, job_id |-> jobId, credits_used |-> amount,
     transaction_type |-> type, description |-> description]

\* credits one step added to a user's balances, over both stores: table t2
\* against user_credits, Map m2 against the user's entry once it exists
Added(username, t2, m2) ==
    (IF user_credits[username] = NoRow THEN 0
     ELSE t2[username] - user_credits[username])
    + (IF m2 = inMemoryCredits THEN 0
       ELSE FallbackCredits(m2, username)
            - FallbackCredits(getCreditsFallback(inMemoryCredits, username,
                                                 "user"), username))

\* a checkUserCredits that passes an account one credit short
checkUserCreditsLoose(username, role, requiredAmount) ==
    IF dbUp /\ user_credits[username] # NoRow
    THEN role = "admin" \/ user_credits[username] >= requiredAmount - 1
    ELSE hasEnoughCreditsFallback(inMemoryCredits, username, requiredAmount)

\* controllers/creditController.ts checkUserCredits: the value returned
checkUserCredits(username, role, requiredAmount) ==
    IF dbUp /\ user_credits[username] # NoRow
    THEN role = "admin" \/ user_credits[username] >= requiredAmount
    ELSE hasEnoughCreditsFallback(inMemoryCredits, username, requiredAmount)

\* checkUserCredits: the fallback Map afterwards
checkUserCreditsMap(username) ==
    IF dbUp /\ user_credits[username] # NoRow
    THEN inMemoryCredits
    ELSE initializeDefaultUsers(inMemoryCredits)

----------------------------------------------------------------------------
(* models/jobs *)

\* a job that is created already started
NewJobStarted(user) ==
    [user |-> user, role |-> Role(user), status |-> "processing",
     result |-> "null", created_at |-> now, updated_at |-> 0]

\* the Job object createJob builds and stores
NewJob(user) ==
    [user |-> user, role |-> Role(user), status |-> "pending",
     result |-> "null", created_at |-> now, updated_at |-> 0]

\* the Map after updateJobStatus(jobId, status, result); result "none" = omitted
updateJobStatus(js, jobId, status, result) ==
    IF jobId \notin DOMAIN js THEN js
    ELSE [js EXCEPT ![jobId] =
            [@ EXCEPT !.status = status,
                      !.updated_at = @ + 1,
                      !.result = IF result # "none" THEN result ELSE @]]

\* findJobById finds nothing: null
NoJob == [user |-> "-", role |-> "-", status |-> "-", result |-> "-",
          created_at |-> 0, updated_at |-> 0]

\* jobs.get(jobId) || null on the Map js
findJobById(js, jobId) == IF jobId \in DOMAIN js THEN js[jobId] ELSE NoJob

\* the status change updateJobStatus makes, for the history variable
Moved(js, jobId, status) ==
    IF jobId \in DOMAIN js THEN {<<js[jobId].status, status>>} ELSE {}

\* the Job object behind a reference, in the Map or removed from it
Object(jobId) == IF jobId \in DOMAIN jobs THEN jobs[jobId] ELSE detached[jobId]

----------------------------------------------------------------------------
Init ==
    /\ dbUp = TRUE
    /\ user_credits \in
         {t \in [Users -> (0..MaxInitial) \cup {NoRow, AdminCredits}] :
            /\ t["admin"] = AdminCredits
            /\ t["boss"] \in {AdminCredits}
            /\ t["user1"] # AdminCredits}
    /\ credit_transactions = <<>>
    /\ inMemoryCredits = <<>>
    /\ jobs = <<>>
    /\ detached = <<>>
    /\ nextJobId = 1
    /\ reqs = [r \in ReqIds |-> Idle]
    /\ exec = <<>>
    /\ processing_history = {}
    /\ images_processed = 0
    /\ db_jobs = <<>>
    /\ db_jobs_seq = 0
    /\ db_exec = <<>>
    /\ initial_credits = user_credits
    /\ debits = <<>>
    /\ refunds = <<>>
    /\ bulk = [u \in Users |-> Zero]
    /\ granted = [u \in Users |-> [durable |-> 0, fallback |-> 0, calls |-> 0]]
    /\ grant_log = <<>>
    /\ transitions = {}
    /\ responses = <<>>
    /\ now = 0
    /\ jobsById = <<>>
    /\ created = <<>>
    /\ txs = [t \in TxIds |-> NoTx]

----------------------------------------------------------------------------
(* controllers/jobsController.ts: deductCreditsSafely, as one outcome *)

\* the store that takes the debit: deductCredits, else deductCreditsFallback
deductCreditsSafelyOutcome(username, role, amount) ==
    IF deductCreditsOk(username, amount) THEN "durable"
    ELSE IF deductCreditsFallbackOk(inMemoryCredits, username, role, amount)
         THEN "fallback"
         ELSE "failed"

\* a deductCreditsSafely whose durable debit appends no log row
deductCreditsUnlogged(username, jobId, amount, role) ==
    /\ user_credits' =
         IF deductCreditsOk(username, amount)
         THEN UpdateCredits(user_credits, username, -amount)
         ELSE user_credits
    /\ credit_transactions' = credit_transactions
    /\ inMemoryCredits' =
         IF deductCreditsOk(username, amount) THEN inMemoryCredits
         ELSE deductCreditsFallback(inMemoryCredits, username, role, amount)

deductCreditsSafely(username, jobId, amount, role) ==
    IF deductCreditsOk(username, amount)
    THEN /\ user_credits' = UpdateCredits(user_credits, username, -amount)
         /\ credit_transactions' =
              Append(credit_transactions, Row(username, jobId, amount, "deduct",
                                              "Image processing job"))
         /\ inMemoryCredits' = inMemoryCredits
    ELSE /\ inMemoryCredits' =
              deductCreditsFallback(inMemoryCredits, username, role, amount)
         /\ UNCHANGED <<user_credits, credit_transactions>>

(* processJobAsync up to its first await: load the job, set it processing *)

\* the Map after processJobAsync(jobId) ran to its first await
StartedJobs(js, jobId) == updateJobStatus(js, jobId, "processing", "none")

\* a processJobAsync that goes on without the job it failed to load
StartedExecAlways(ex, js, jobId, user) ==
    ex @@ (jobId :> [pc |-> "transform", user |-> user, success |-> FALSE])

\* the activations after processJobAsync(jobId): none when the job is absent
StartedExec(ex, js, jobId, user) ==
    IF jobId \in DOMAIN js
    THEN ex @@ (jobId :> [pc |-> "transform", user |-> user, success |-> FALSE])
    ELSE ex

----------------------------------------------------------------------------
(* controllers/jobsController.ts: createJob *)

\* the request arrives; checkUserCredits answers; the job is created
CreateJobCheck(r, u) ==
    /\ FreeSlot(r)
    /\ Room(1)
    /\ Role(u) # "admin"
    /\ inMemoryCredits' = checkUserCreditsMap(u)
    /\ IF checkUserCredits(u, Role(u), JobCost)
       THEN /\ jobs' = jobs @@ (nextJobId :> NewJob(u))
            /\ nextJobId' = nextJobId + 1
            /\ reqs' = [reqs EXCEPT ![r] =
                 [Idle EXCEPT !.kind = "createJob", !.user = u,
                              !.pc = "deduct", !.job = nextJobId]]
       ELSE /\ reqs' = [reqs EXCEPT ![r] =
                 [Idle EXCEPT !.kind = "createJob", !.user = u,
                              !.pc = "insufficient"]]
            /\ UNCHANGED <<jobs, nextJobId>>
    /\ UNCHANGED <<dbUp, user_credits, credit_transactions, detached, exec,
                   histVars, dbJobVars, variantVars, txs, initial_credits, ledgerHist, transitions,
                   responses>>

\* an admin request runs to its response without suspending
CreateJobAdmin(r, u) ==
    /\ FreeSlot(r)
    /\ Room(1)
    /\ Role(u) = "admin"
    /\ LET js == jobs @@ (nextJobId :> NewJob(u))
       IN  /\ jobs' = StartedJobs(js, nextJobId)
           /\ exec' = StartedExec(exec, js, nextJobId, u)
           /\ transitions' = transitions \cup Moved(js, nextJobId, "processing")
    /\ nextJobId' = nextJobId + 1
    /\ responses' = responses @@ (nextJobId :> jobs'[nextJobId].status)
    /\ UNCHANGED <<dbUp, ledgerVars, detached, reqs, histVars,
                   dbJobVars, variantVars, txs, initial_credits, ledgerHist>>

\* the 402 branch of createJob, createBatchJobs and batch-process:
\* getUserCredits, or getCreditsFallback when it throws
Insufficient(r) ==
    /\ reqs[r].pc = "insufficient"
    /\ inMemoryCredits' =
         IF dbUp THEN inMemoryCredits
         ELSE getCreditsFallback(inMemoryCredits, reqs[r].user,
                                 Role(reqs[r].user))
    /\ reqs' = [reqs EXCEPT ![r] = Idle]
    /\ UNCHANGED <<dbUp, user_credits, credit_transactions, jobVars, exec,
                   histVars, dbJobVars, variantVars, txs, initial_credits, ledgerHist, responses>>

\* deductCreditsSafely returns; processJobAsync starts; the response is sent
CreateJobDeduct(r) ==
    /\ reqs[r].kind = "createJob"
    /\ reqs[r].pc = "deduct"
    /\ LET u == reqs[r].user
           j == reqs[r].job
       IN  /\ deductCreditsSafely(u, j, JobCost, Role(u))
           /\ debits' = debits @@
                (j :> deductCreditsSafelyOutcome(u, Role(u), JobCost))
           /\ jobs' = StartedJobs(jobs, j)
           /\ exec' = StartedExec(exec, jobs, j, u)
           /\ transitions' = transitions \cup Moved(jobs, j, "processing")
           /\ responses' = responses @@
                (j :> IF j \in DOMAIN jobs THEN jobs'[j].status
                      ELSE detached[j].status)
    /\ reqs' = [reqs EXCEPT ![r] = Idle]
    /\ UNCHANGED <<dbUp, detached, nextJobId, histVars, dbJobVars, variantVars, txs, initial_credits,
                   refunds, bulk, granted, grant_log>>

----------------------------------------------------------------------------
(* controllers/jobsController.ts: processJobAsync after its first await *)

\* ImageProcessor.processImage settles: ok, or fail (returned or thrown)
ExecTransform(j, ok) ==
    /\ j \in DOMAIN exec
    /\ exec[j].pc = "transform"
    /\ jobs' = updateJobStatus(jobs, j, IF ok THEN "completed" ELSE "failed",
                               IF ok THEN "output" ELSE "error")
    /\ transitions' = transitions \cup
         Moved(jobs, j, IF ok THEN "completed" ELSE "failed")
    /\ exec' = [exec EXCEPT ![j] =
         [@ EXCEPT !.success = ok,
                   !.pc = IF ~ok /\ exec[j].user # "admin"
                          THEN "refund" ELSE "record"]]
    /\ UNCHANGED <<dbUp, ledgerVars, detached, nextJobId, reqs, histVars,
                   dbJobVars, variantVars, txs, initial_credits, ledgerHist, responses>>

\* a refund that runs refundCreditsFallback after refundCredits committed too
refundCreditsBoth(username, jobId, amount) ==
    /\ user_credits' =
         IF dbUp THEN UpdateCredits(user_credits, username, amount)
         ELSE user_credits
    /\ credit_transactions' =
         IF dbUp
         THEN Append(credit_transactions,
                     Row(username, jobId, amount, "refund",
                         "Job failed - credit refund"))
         ELSE credit_transactions
    /\ inMemoryCredits' =
         refundCreditsFallback(inMemoryCredits, username, "user", amount)

\* refundCredits commits, or throws and refundCreditsFallback runs
refundCreditsSafely(username, jobId, amount) ==
    IF dbUp
    THEN /\ user_credits' = UpdateCredits(user_credits, username, amount)
         /\ credit_transactions' =
              Append(credit_transactions,
                     Row(username, jobId, amount, "refund",
                         "Job failed - credit refund"))
         /\ inMemoryCredits' = inMemoryCredits
    ELSE /\ inMemoryCredits' =
              refundCreditsFallback(inMemoryCredits, username, "user", amount)
         /\ UNCHANGED <<user_credits, credit_transactions>>

ExecRefund(j) ==
    /\ j \in DOMAIN exec
    /\ exec[j].pc = "refund"
    /\ refundCreditsSafely(exec[j].user, j, JobCost)
    /\ refunds' = refunds @@
         (j :> [durable |-> IF dbUp THEN 1 ELSE 0,
                fallback |-> IF dbUp THEN 0 ELSE 1,
                added |-> Added(exec[j].user, user_credits', inMemoryCredits')])
    /\ exec' = [exec EXCEPT ![j].pc = "record"]
    /\ UNCHANGED <<dbUp, jobVars, reqs, histVars, dbJobVars, variantVars, txs, initial_credits, debits,
                   bulk, granted, grant_log, responses>>

\* system_stats has a plain index on metric_name and no unique constraint,
\* so INSERT ... ON CONFLICT (metric_name) is rejected by the store
MetricNameUnique == FALSE

\* processing_history.job_id REFERENCES s302.jobs(id)
JobRowExists(jobId) == jobId \in DOMAIN db_jobs

\* a recordProcessingHistory whose history row stays when a later statement
\* of the callback is rejected
recordProcessingHistoryUnrolled(jobId, success) ==
    IF ~dbUp \/ ~JobRowExists(jobId)
    THEN [history |-> processing_history, count |-> images_processed]
    ELSE [history |-> processing_history \cup
                        {[job_id |-> jobId, success |-> success]},
          count |-> IF success /\ MetricNameUnique THEN images_processed + 1
                    ELSE images_processed]

\* models/history.ts recordProcessingHistory: the tables after the
\* transaction; a rejected statement rolls the history row back
recordProcessingHistory(jobId, success) ==
    IF ~dbUp \/ ~JobRowExists(jobId) \/ (success /\ ~MetricNameUnique)
    THEN [history |-> processing_history, count |-> images_processed]
    ELSE [history |-> processing_history \cup
                        {[job_id |-> jobId, success |-> success]},
          count |-> IF success THEN images_processed + 1
                    ELSE images_processed]

\* a processJobAsync that marks the job failed when the append throws
ExecRecordMarksFailed(j) ==
    /\ j \in DOMAIN exec
    /\ exec[j].pc = "record"
    /\ processing_history' = recordProcessingHistory(j, exec[j].success).history
    /\ images_processed' = recordProcessingHistory(j, exec[j].success).count
    /\ jobs' = IF processing_history' = processing_history
               THEN updateJobStatus(jobs, j, "failed", "error") ELSE jobs
    /\ exec' = [exec EXCEPT ![j].pc = "done"]
    /\ UNCHANGED <<dbUp, ledgerVars, detached, nextJobId, transitions, reqs,
                   dbJobVars, variantVars, txs, initial_credits, ledgerHist,
                   responses>>

\* recordProcessingHistory commits, or throws and the throw is logged
ExecRecord(j) ==
    /\ j \in DOMAIN exec
    /\ exec[j].pc = "record"
    /\ processing_history' = recordProcessingHistory(j, exec[j].success).history
    /\ images_processed' = recordProcessingHistory(j, exec[j].success).count
    /\ exec' = [exec EXCEPT ![j].pc = "done"]
    /\ UNCHANGED <<dbUp, ledgerVars, jobVars, reqs, dbJobVars, variantVars, txs, initial_credits,
                   ledgerHist, responses>>

----------------------------------------------------------------------------
(* controllers/jobsController.ts: createBatchJobs *)

\* statuses of the Job objects a response serialises, read from Map js
Statuses(js, made) ==
    [k \in {made[i] : i \in DOMAIN made} |->
        IF k \in DOMAIN js THEN js[k].status ELSE detached[k].status]

\* the request arrives with n files; checkUserCredits answers; the loop skips
\* `skip` missing files and creates the job of the next one, or ends
CreateBatchCheck(r, u, n, skip) ==
    /\ FreeSlot(r)
    /\ Room(n)
    /\ Role(u) # "admin"
    /\ skip \in 0..n
    /\ inMemoryCredits' = checkUserCreditsMap(u)
    /\ IF ~checkUserCredits(u, Role(u), n)
       THEN /\ reqs' = [reqs EXCEPT ![r] =
                 [Idle EXCEPT !.kind = "createBatch", !.user = u,
                              !.pc = "insufficient"]]
            /\ UNCHANGED <<jobs, nextJobId>>
       ELSE IF skip = n
       THEN UNCHANGED <<reqs, jobs, nextJobId>>
       ELSE /\ jobs' = jobs @@ (nextJobId :> NewJob(u))
            /\ nextJobId' = nextJobId + 1
            /\ reqs' = [reqs EXCEPT ![r] =
                 [Idle EXCEPT !.kind = "createBatch", !.user = u,
                              !.pc = "deduct", !.job = nextJobId,
                              !.files = n - skip - 1,
                              !.made = <<nextJobId>>]]
    /\ UNCHANGED <<dbUp, user_credits, credit_transactions, detached, exec,
                   histVars, dbJobVars, variantVars, txs, initial_credits, ledgerHist, transitions,
                   responses>>

\* deductCreditsSafely returns; processJobAsync starts; the loop goes on to
\* the next existing file, or ends and the response is sent
CreateBatchDeduct(r, skip) ==
    /\ reqs[r].kind = "createBatch"
    /\ reqs[r].pc = "deduct"
    /\ skip \in 0..reqs[r].files
    /\ LET u == reqs[r].user
           j == reqs[r].job
           js == StartedJobs(jobs, j)
       IN  /\ deductCreditsSafely(u, j, JobCost, Role(u))
           /\ debits' = debits @@
                (j :> deductCreditsSafelyOutcome(u, Role(u), JobCost))
           /\ exec' = StartedExec(exec, jobs, j, u)
           /\ transitions' = transitions \cup Moved(jobs, j, "processing")
           /\ IF skip = reqs[r].files
              THEN /\ jobs' = js
                   /\ responses' = responses @@ Statuses(js, reqs[r].made)
                   /\ reqs' = [reqs EXCEPT ![r] = Idle]
                   /\ UNCHANGED nextJobId
              ELSE /\ jobs' = js @@ (nextJobId :> NewJob(u))
                   /\ nextJobId' = nextJobId + 1
                   /\ reqs' = [reqs EXCEPT ![r] =
                        [@ EXCEPT !.job = nextJobId,
                                  !.files = @ - skip - 1,
                                  !.made = Append(@, nextJobId)]]
                   /\ UNCHANGED responses
    /\ UNCHANGED <<dbUp, detached, histVars, dbJobVars, variantVars, txs, initial_credits, refunds, bulk,
                   granted, grant_log>>

\* an admin batch never suspends: m of the n files exist, m jobs are started
CreateBatchAdmin(r, u, n, m) ==
    /\ FreeSlot(r)
    /\ Room(n)
    /\ Role(u) = "admin"
    /\ m \in 1..n
    /\ LET ids == nextJobId..(nextJobId + m - 1)
       IN  /\ jobs' = jobs @@
                [k \in ids |-> [NewJob(u) EXCEPT !.status = "processing",
                                                 !.updated_at = 1]]
           /\ exec' = exec @@
                [k \in ids |-> [pc |-> "transform", user |-> u,
                                success |-> FALSE]]
           /\ responses' = responses @@ [k \in ids |-> "processing"]
    /\ transitions' = transitions \cup {<<"pending", "processing">>}
    /\ nextJobId' = nextJobId + m
    /\ UNCHANGED <<dbUp, ledgerVars, detached, reqs, histVars,
                   dbJobVars, variantVars, txs, initial_credits, ledgerHist>>

----------------------------------------------------------------------------
(* routes/jobs.ts: POST /batch-process *)

\* the credit check of n files; the loop skips `skip` missing files and
\* awaits processImage for the next one, or ends
BatchProcessCheck(r, u, n, skip) ==
    /\ FreeSlot(r)
    /\ Room(n)
    /\ skip \in 0..n
    /\ inMemoryCredits' =
         IF Role(u) # "admin" THEN checkUserCreditsMap(u) ELSE inMemoryCredits
    /\ reqs' = [reqs EXCEPT ![r] =
         IF Role(u) # "admin" /\ ~checkUserCredits(u, Role(u), n)
         THEN [Idle EXCEPT !.kind = "batchProcess", !.user = u,
                           !.pc = "insufficient"]
         ELSE IF skip = n
         THEN IF Role(u) # "admin"
              THEN [Idle EXCEPT !.kind = "batchProcess", !.user = u,
                                !.pc = "update"]
              ELSE Idle
         ELSE [Idle EXCEPT !.kind = "batchProcess", !.user = u,
                           !.pc = "image", !.files = n - skip]]
    /\ reqs' # reqs
    /\ UNCHANGED <<dbUp, user_credits, credit_transactions, jobVars, exec,
                   histVars, dbJobVars, variantVars, txs, initial_credits, ledgerHist, responses>>

\* a batch-process that goes on to the deduction for every role
BatchProcessImageAnyRole(r, thrown, skip) ==
    /\ reqs[r].kind = "batchProcess"
    /\ reqs[r].pc = "image"
    /\ skip \in 0..(reqs[r].files - 1)
    /\ LET u == reqs[r].user
           js == jobs @@ (nextJobId :> NewJob(u))
           left == reqs[r].files - 1 - skip
       IN  /\ IF thrown
              THEN UNCHANGED <<jobs, nextJobId, transitions>>
              ELSE /\ jobs' = updateJobStatus(js, nextJobId, "completed",
                                              "output")
                   /\ nextJobId' = nextJobId + 1
                   /\ transitions' = transitions \cup
                        Moved(js, nextJobId, "completed")
           /\ reqs' = [reqs EXCEPT ![r] =
                IF left > 0
                THEN [@ EXCEPT !.files = left,
                               !.ok = IF thrown THEN @ ELSE @ + 1]
                ELSE [@ EXCEPT !.files = 0, !.pc = "update",
                               !.ok = IF thrown THEN @ ELSE @ + 1]]
    /\ UNCHANGED <<dbUp, ledgerVars, detached, exec, histVars,
                   dbJobVars, variantVars, txs, initial_credits, ledgerHist, responses>>

\* processImage settles for the current file: unless it threw, the job is
\* created and marked completed at once; then the loop goes on
BatchProcessImage(r, thrown, skip) ==
    /\ reqs[r].kind = "batchProcess"
    /\ reqs[r].pc = "image"
    /\ skip \in 0..(reqs[r].files - 1)
    /\ LET u == reqs[r].user
           js == jobs @@ (nextJobId :> NewJob(u))
           left == reqs[r].files - 1 - skip
       IN  /\ IF thrown
              THEN UNCHANGED <<jobs, nextJobId, transitions>>
              ELSE /\ jobs' = updateJobStatus(js, nextJobId, "completed",
                                              "output")
                   /\ nextJobId' = nextJobId + 1
                   /\ transitions' = transitions \cup
                        Moved(js, nextJobId, "completed")
           /\ reqs' = [reqs EXCEPT ![r] =
                IF left > 0
                THEN [@ EXCEPT !.files = left,
                               !.ok = IF thrown THEN @ ELSE @ + 1]
                ELSE IF Role(u) # "admin"
                THEN [@ EXCEPT !.files = 0, !.pc = "update",
                               !.ok = IF thrown THEN @ ELSE @ + 1]
                ELSE Idle]
    /\ UNCHANGED <<dbUp, ledgerVars, detached, exec, histVars,
                   dbJobVars, variantVars, txs, initial_credits, ledgerHist, responses>>

\* UPDATE user_credits SET credits = credits - successfulJobs.length, or
\* deductCreditsFallback when the query throws; then the response
BatchProcessUpdate(r) ==
    /\ reqs[r].kind = "batchProcess"
    /\ reqs[r].pc = "update"
    /\ LET u == reqs[r].user
           n == reqs[r].ok
       IN  /\ IF dbUp
              THEN /\ user_credits' = UpdateCredits(user_credits, u, -n)
                   /\ UNCHANGED <<credit_transactions, inMemoryCredits>>
              ELSE /\ inMemoryCredits' =
                        deductCreditsFallback(inMemoryCredits, u, Role(u), n)
                   /\ UNCHANGED <<user_credits, credit_transactions>>
           /\ bulk' = [bulk EXCEPT ![u] =
                [durable |-> @.durable +
                    (IF dbUp /\ user_credits[u] # NoRow THEN n ELSE 0),
                 fallback |-> @.fallback +
                    (IF ~dbUp /\ deductCreditsFallbackOk(inMemoryCredits, u,
                                                          Role(u), n)
                     THEN n ELSE 0)]]
    /\ reqs' = [reqs EXCEPT ![r] = Idle]
    /\ UNCHANGED <<dbUp, jobVars, exec, histVars, dbJobVars, variantVars, txs, initial_credits, debits,
                   refunds, granted, grant_log, responses>>

----------------------------------------------------------------------------
(* controllers/creditController.ts: grantCreditsToUser *)

GrantCalls == granted["admin"].calls + granted["boss"].calls
              + granted["user1"].calls

\* rejected calls so far: 403 and 400 responses
GrantRejects ==
    Cardinality({i \in 1..Len(grant_log) : grant_log[i].status # 200})

\* a grantCreditsToUser without the role test
GrantCreditsByAnyone(caller, username, creditsToGrant) ==
    IF username = "" \/ creditsToGrant <= 0
    THEN /\ GrantRejects < MaxRejects
         /\ grant_log' = Append(grant_log,
              [caller |-> caller, username |-> username,
               creditsToGrant |-> creditsToGrant, status |-> 400])
         /\ UNCHANGED <<dbUp, ledgerVars, jobVars, reqs, exec, histVars,
                        dbJobVars, variantVars, txs, initial_credits, debits, refunds, bulk,
                        granted, responses>>
    ELSE /\ GrantCalls < MaxGrants
         /\ user_credits' =
              IF dbUp
              THEN UpdateCredits(user_credits, username, creditsToGrant)
              ELSE user_credits
         /\ credit_transactions' =
              IF dbUp
              THEN Append(credit_transactions,
                          Row(username, 0, creditsToGrant, "admin_grant",
                              caller))
              ELSE credit_transactions
         /\ inMemoryCredits' =
              IF dbUp THEN inMemoryCredits
              ELSE grantCreditsFallback(inMemoryCredits, username,
                                        creditsToGrant)
         /\ granted' = [granted EXCEPT ![username].calls = @ + 1]
         /\ grant_log' = Append(grant_log,
              [caller |-> caller, username |-> username,
               creditsToGrant |-> creditsToGrant, status |-> 200])
         /\ UNCHANGED <<dbUp, jobVars, reqs, exec, histVars, dbJobVars,
                        variantVars, txs, initial_credits, debits, refunds, bulk, responses>>

\* grantCreditsToUser: 403 for a caller whose role is not admin, 400 for a
\* missing username or an amount that is missing or not positive; else
\* grantCredits commits, or throws and grantCreditsFallback runs
GrantCredits(caller, username, creditsToGrant) ==
    IF Role(caller) # "admin" \/ username = "" \/ creditsToGrant <= 0
    THEN /\ GrantRejects < MaxRejects
         /\ grant_log' = Append(grant_log,
              [caller |-> caller, username |-> username,
               creditsToGrant |-> creditsToGrant,
               status |-> IF Role(caller) # "admin" THEN 403 ELSE 400])
         /\ UNCHANGED <<dbUp, ledgerVars, jobVars, reqs, exec, histVars,
                        dbJobVars, variantVars, txs, initial_credits, debits, refunds, bulk,
                        granted, responses>>
    ELSE /\ GrantCalls < MaxGrants
         /\ IF dbUp
            THEN /\ user_credits' =
                      UpdateCredits(user_credits, username, creditsToGrant)
                 /\ credit_transactions' = Append(credit_transactions,
                      Row(username, 0, creditsToGrant, "admin_grant", caller))
                 /\ UNCHANGED inMemoryCredits
            ELSE /\ inMemoryCredits' =
                      grantCreditsFallback(inMemoryCredits, username,
                                           creditsToGrant)
                 /\ UNCHANGED <<user_credits, credit_transactions>>
         /\ granted' = [granted EXCEPT ![username] =
              [durable |-> @.durable +
                  (IF dbUp /\ user_credits[username] # NoRow
                   THEN creditsToGrant ELSE 0),
               fallback |-> @.fallback +
                  (IF ~dbUp /\ inMemoryCredits'[username].role # "admin"
                   THEN creditsToGrant ELSE 0),
               calls |-> @.calls + 1]]
         /\ grant_log' = Append(grant_log,
              [caller |-> caller, username |-> username,
               creditsToGrant |-> creditsToGrant, status |-> 200])
         /\ UNCHANGED <<dbUp, jobVars, reqs, exec, histVars, dbJobVars,
                        variantVars, txs, initial_credits, debits, refunds, bulk, responses>>

----------------------------------------------------------------------------
(* routes/jobs.ts: DELETE /:id *)

\* the ownership query throws and deleteJob(jobId) removes the job from the
\* Map, whoever asks; with the store up the in-memory Map is not consulted
DeleteJob(caller, jobId) ==
    /\ ~dbUp
    /\ jobId \in DOMAIN jobs
    /\ jobs' = Remove(jobs, jobId)
    /\ detached' = detached @@ (jobId :> jobs[jobId])
    /\ UNCHANGED <<dbUp, ledgerVars, nextJobId, transitions, reqs, exec,
                   histVars, dbJobVars, variantVars, txs, initial_credits, ledgerHist, responses>>

----------------------------------------------------------------------------
(* The durable store becomes unreachable, and reachable again *)

DbFail ==
    /\ dbUp
    /\ dbUp' = FALSE
    /\ UNCHANGED <<ledgerVars, jobVars, reqs, exec, histVars, dbJobVars, variantVars, txs, initial_credits,
                   ledgerHist, responses>>

\* a recovery that writes the fallback balances into user_credits
DbRecoverReconciles ==
    /\ ~dbUp
    /\ dbUp' = TRUE
    /\ user_credits' =
         [u \in DOMAIN user_credits |->
            IF u \in DOMAIN inMemoryCredits /\ user_credits[u] # NoRow
            THEN inMemoryCredits[u].credits ELSE user_credits[u]]
    /\ UNCHANGED <<credit_transactions, inMemoryCredits, jobVars, reqs, exec,
                   histVars, dbJobVars, variantVars, txs, initial_credits,
                   ledgerHist, responses>>

DbRecover ==
    /\ ~dbUp
    /\ dbUp' = TRUE
    /\ UNCHANGED <<ledgerVars, jobVars, reqs, exec, histVars, dbJobVars, variantVars, txs, initial_credits,
                   ledgerHist, responses>>

----------------------------------------------------------------------------
(* The pipeline with standard users submitting and an administrator granting *)

Sizes == 1..MaxBatch

Next ==
    \/ \E r \in ReqIds, u \in Standard : CreateJobCheck(r, u)
    \/ \E r \in ReqIds : Insufficient(r)
    \/ \E r \in ReqIds : CreateJobDeduct(r)
    \/ \E r \in ReqIds, u \in Standard, n \in Sizes, k \in 0..MaxBatch :
          CreateBatchCheck(r, u, n, k)
    \/ \E r \in ReqIds, k \in 0..MaxBatch : CreateBatchDeduct(r, k)
    \/ \E r \in ReqIds, u \in Standard, n \in Sizes, k \in 0..MaxBatch :
          BatchProcessCheck(r, u, n, k)
    \/ \E r \in ReqIds, t \in BOOLEAN, k \in 0..MaxBatch :
          BatchProcessImage(r, t, k)
    \/ \E r \in ReqIds : BatchProcessUpdate(r)
    \/ \E j \in DOMAIN exec, ok \in BOOLEAN : ExecTransform(j, ok)
    \/ \E j \in DOMAIN exec : ExecRefund(j)
    \/ \E j \in DOMAIN exec : ExecRecord(j)
    \/ \E u \in Standard : GrantCredits("admin", u, 1)
    \/ \E u \in Users, j \in DOMAIN jobs : DeleteJob(u, j)
    \/ DbFail
    \/ DbRecover

Spec == Init /\ [][Next]_vars

----------------------------------------------------------------------------
(* The same pipeline with the durable store reachable throughout *)

NextDurable ==
    \/ \E r \in ReqIds, u \in Standard : CreateJobCheck(r, u)
    \/ \E r \in ReqIds : Insufficient(r)
    \/ \E r \in ReqIds : CreateJobDeduct(r)
    \/ \E r \in ReqIds, u \in Standard, n \in Sizes, k \in 0..MaxBatch :
          CreateBatchCheck(r, u, n, k)
    \/ \E r \in ReqIds, k \in 0..MaxBatch : CreateBatchDeduct(r, k)
    \/ \E r \in ReqIds, u \in Standard, n \in Sizes, k \in 0..MaxBatch :
          BatchProcessCheck(r, u, n, k)
    \/ \E r \in ReqIds, t \in BOOLEAN, k \in 0..MaxBatch :
          BatchProcessImage(r, t, k)
    \/ \E r \in ReqIds : BatchProcessUpdate(r)
    \/ \E j \in DOMAIN exec, ok \in BOOLEAN : ExecTransform(j, ok)
    \/ \E j \in DOMAIN exec : ExecRefund(j)
    \/ \E j \in DOMAIN exec : ExecRecord(j)
    \/ \E u \in Standard : GrantCredits("admin", u, 1)

SpecDurable == Init /\ [][NextDurable]_vars

----------------------------------------------------------------------------
(* The controller over the jobs table s302.jobs: createJob, processJobAsync *)

\* req.user.id, the value createJob stores in s302.jobs.user_id
UserId(u) ==
    CASE u = "admin" -> "sub-admin"
      [] u = "boss" -> "sub-boss"
      [] OTHER -> "sub-user1"

\* UPDATE s302.jobs SET status, result WHERE id = jobId: no row, no change
UpdateJobRow(t, jobId, status, result) ==
    IF jobId \notin DOMAIN t THEN t
    ELSE [t EXCEPT ![jobId] = [@ EXCEPT !.status = status, !.result = result]]

\* the request arrives; checkUserCreditsInternal answers for a standard user
DbCreateJobCheck(r, u) ==
    /\ FreeSlot(r)
    /\ Room(1)
    /\ inMemoryCredits' =
         IF Role(u) # "admin" THEN checkUserCreditsMap(u) ELSE inMemoryCredits
    /\ reqs' = [reqs EXCEPT ![r] =
         [Idle EXCEPT !.kind = "createJobDb", !.user = u, !.files = 1,
                      !.pc = IF Role(u) = "admin"
                                \/ checkUserCredits(u, Role(u), JobCost)
                             THEN "insert" ELSE "insufficient"]]
    /\ UNCHANGED <<dbUp, user_credits, credit_transactions, jobVars, exec,
                   histVars, dbJobVars, variantVars, txs, initial_credits, ledgerHist,
                   responses>>

\* INSERT INTO s302.jobs settles: the row exists, or the request answers 500;
\* an admin request goes on to start processJobAsync and respond
DbCreateJobInsert(r) ==
    /\ reqs[r].kind = "createJobDb"
    /\ reqs[r].pc = "insert"
    /\ LET u == reqs[r].user
           j == db_jobs_seq + 1
       IN  IF ~dbUp
           THEN /\ reqs' = [reqs EXCEPT ![r] = Idle]
                /\ UNCHANGED <<dbJobVars, responses>>
           ELSE /\ db_jobs' = db_jobs @@
                     (j :> [user_id |-> UserId(u), status |-> "pending",
                            result |-> "null"])
                /\ db_jobs_seq' = j
                /\ IF Role(u) = "admin"
                   THEN /\ db_exec' = db_exec @@ (j :>
                             [pc |-> "select", user_id |-> "-",
                              success |-> FALSE])
                        /\ responses' = responses @@ (j :> "pending")
                        /\ reqs' = [reqs EXCEPT ![r] = Idle]
                   ELSE /\ reqs' = [reqs EXCEPT ![r] =
                             [@ EXCEPT !.pc = "deduct", !.job = j,
                                       !.files = 0]]
                        /\ UNCHANGED <<db_exec, responses>>
    /\ UNCHANGED <<dbUp, ledgerVars, jobVars, exec, histVars, variantVars, txs, initial_credits,
                   ledgerHist>>

\* deductCreditsSafely returns; processJobAsync starts; the response is sent
DbCreateJobDeduct(r) ==
    /\ reqs[r].kind = "createJobDb"
    /\ reqs[r].pc = "deduct"
    /\ LET u == reqs[r].user
           j == reqs[r].job
       IN  /\ deductCreditsSafely(u, j, JobCost, Role(u))
           /\ db_exec' = db_exec @@ (j :>
                [pc |-> "select", user_id |-> "-", success |-> FALSE])
           /\ responses' = responses @@ (j :> "pending")
    /\ reqs' = [reqs EXCEPT ![r] = Idle]
    /\ UNCHANGED <<dbUp, jobVars, exec, histVars, db_jobs, db_jobs_seq,
                   variantVars, txs, initial_credits, ledgerHist>>

\* SELECT * FROM s302.jobs settles: the activation holds the row, returns
\* when there is none, and ends by the rejection when the store is unreachable
DbProcessSelect(j) ==
    /\ j \in DOMAIN db_exec
    /\ db_exec[j].pc = "select"
    /\ db_exec' = [db_exec EXCEPT ![j] =
         IF dbUp /\ j \in DOMAIN db_jobs
         THEN [@ EXCEPT !.pc = "processing", !.user_id = db_jobs[j].user_id]
         ELSE [@ EXCEPT !.pc = IF dbUp THEN "done" ELSE "rejected"]]
    /\ UNCHANGED <<dbUp, ledgerVars, jobVars, reqs, exec, histVars, db_jobs,
                   db_jobs_seq, variantVars, txs, initial_credits, ledgerHist, responses>>

\* UPDATE status='processing' settles; a rejection enters the catch block
DbProcessStart(j) ==
    /\ j \in DOMAIN db_exec
    /\ db_exec[j].pc = "processing"
    /\ db_jobs' = IF dbUp THEN UpdateJobRow(db_jobs, j, "processing",
                                            db_jobs[j].result)
                  ELSE db_jobs
    /\ db_exec' = [db_exec EXCEPT ![j].pc =
                     IF dbUp THEN "transform" ELSE "failed"]
    /\ UNCHANGED <<dbUp, ledgerVars, jobVars, reqs, exec, histVars,
                   db_jobs_seq, variantVars, txs, initial_credits, ledgerHist, responses>>

\* ImageProcessor.processImage settles: ok, or fail (returned or thrown)
DbProcessTransform(j, ok) ==
    /\ j \in DOMAIN db_exec
    /\ db_exec[j].pc = "transform"
    /\ db_exec' = [db_exec EXCEPT ![j].pc =
                     IF ok THEN "completed" ELSE "failed"]
    /\ UNCHANGED <<dbUp, ledgerVars, jobVars, reqs, exec, histVars, db_jobs,
                   db_jobs_seq, variantVars, txs, initial_credits, ledgerHist, responses>>

\* UPDATE status='completed' settles; a rejection enters the catch block
DbProcessCompleted(j) ==
    /\ j \in DOMAIN db_exec
    /\ db_exec[j].pc = "completed"
    /\ db_jobs' = IF dbUp THEN UpdateJobRow(db_jobs, j, "completed", "output")
                  ELSE db_jobs
    /\ db_exec' = [db_exec EXCEPT ![j] =
         IF dbUp THEN [@ EXCEPT !.success = TRUE, !.pc = "record"]
         ELSE [@ EXCEPT !.pc = "failed"]]
    /\ UNCHANGED <<dbUp, ledgerVars, jobVars, reqs, exec, histVars,
                   db_jobs_seq, variantVars, txs, initial_credits, ledgerHist, responses>>

\* the catch block's UPDATE status='failed' settles; its rejection leaves the
\* row as it is; the finally block runs either way
DbProcessFailed(j) ==
    /\ j \in DOMAIN db_exec
    /\ db_exec[j].pc = "failed"
    /\ db_jobs' = IF dbUp THEN UpdateJobRow(db_jobs, j, "failed", "error")
                  ELSE db_jobs
    /\ db_exec' = [db_exec EXCEPT ![j].pc =
                     IF db_exec[j].user_id # "admin" THEN "refund"
                     ELSE "record"]
    /\ UNCHANGED <<dbUp, ledgerVars, jobVars, reqs, exec, histVars,
                   db_jobs_seq, variantVars, txs, initial_credits, ledgerHist, responses>>

\* refundCredits(job.user_id, ...) commits, or throws and
\* refundCreditsFallback(job.user_id, "user", 1) runs
DbProcessRefund(j) ==
    /\ j \in DOMAIN db_exec
    /\ db_exec[j].pc = "refund"
    /\ refundCreditsSafely(db_exec[j].user_id, j, JobCost)
    /\ db_exec' = [db_exec EXCEPT ![j].pc = "record"]
    /\ UNCHANGED <<dbUp, jobVars, reqs, exec, histVars, db_jobs, db_jobs_seq,
                   variantVars, txs, initial_credits, ledgerHist, responses>>

\* recordProcessingHistory({user: job.user}) throws, the row having no column
\* user and processing_history."user" being NOT NULL; the error is logged
DbProcessRecord(j) ==
    /\ j \in DOMAIN db_exec
    /\ db_exec[j].pc = "record"
    /\ db_exec' = [db_exec EXCEPT ![j].pc = "done"]
    /\ UNCHANGED <<dbUp, ledgerVars, jobVars, reqs, exec, histVars, db_jobs,
                   db_jobs_seq, variantVars, txs, initial_credits, ledgerHist, responses>>

\* one step of a processJobAsync activation over s302.jobs
DbProcessStep(j) ==
    \/ DbProcessSelect(j)
    \/ DbProcessStart(j)
    \/ \E ok \in BOOLEAN : DbProcessTransform(j, ok)
    \/ DbProcessCompleted(j)
    \/ DbProcessFailed(j)
    \/ DbProcessRefund(j)
    \/ DbProcessRecord(j)

NextDbJobs ==
    \/ \E r \in ReqIds, u \in Users : DbCreateJobCheck(r, u)
    \/ \E r \in ReqIds : Insufficient(r)
    \/ \E r \in ReqIds : DbCreateJobInsert(r)
    \/ \E r \in ReqIds : DbCreateJobDeduct(r)
    \/ \E j \in 1..MaxJobs : DbProcessSelect(j)
    \/ \E j \in 1..MaxJobs : DbProcessStart(j)
    \/ \E j \in 1..MaxJobs, ok \in BOOLEAN : DbProcessTransform(j, ok)
    \/ \E j \in 1..MaxJobs : DbProcessCompleted(j)
    \/ \E j \in 1..MaxJobs : DbProcessFailed(j)
    \/ \E j \in 1..MaxJobs : DbProcessRefund(j)
    \/ \E j \in 1..MaxJobs : DbProcessRecord(j)
    \/ DbFail
    \/ DbRecover

\* every awaited query and the Transformer call settle, so each activation
\* and each request handler takes its next step
SpecDbJobs ==
    /\ Init
    /\ [][NextDbJobs]_vars
    /\ \A j \in 1..MaxJobs : WF_vars(DbProcessStep(j))
    /\ \A r \in ReqIds : WF_vars(DbCreateJobInsert(r) \/ DbCreateJobDeduct(r)
                                  \/ Insufficient(r))

----------------------------------------------------------------------------
(* The job store driven through its interface: models/jobs *)

StoreCreate(u) ==
    /\ nextJobId <= MaxJobs
    /\ jobs' = jobs @@ (nextJobId :> NewJob(u))
    /\ nextJobId' = nextJobId + 1
    /\ UNCHANGED <<dbUp, ledgerVars, detached, transitions, reqs, exec,
                   histVars, dbJobVars, variantVars, txs, initial_credits, ledgerHist,
                   responses>>

\* updateJobStatus(jobId, status, result) returns, false for an absent job
StoreUpdate(jobId, status, result) ==
    /\ jobId \in DOMAIN jobs => jobs[jobId].updated_at < MaxUpdates
    /\ jobs' = updateJobStatus(jobs, jobId, status, result)
    /\ transitions' = transitions \cup Moved(jobs, jobId, status)
    /\ UNCHANGED <<dbUp, ledgerVars, detached, nextJobId, reqs, exec,
                   histVars, dbJobVars, variantVars, txs, initial_credits, ledgerHist,
                   responses>>

StoreDelete(jobId) ==
    /\ jobId \in DOMAIN jobs
    /\ jobs' = Remove(jobs, jobId)
    /\ detached' = detached @@ (jobId :> jobs[jobId])
    /\ UNCHANGED <<dbUp, ledgerVars, nextJobId, transitions, reqs, exec,
                   histVars, dbJobVars, variantVars, txs, initial_credits, ledgerHist,
                   responses>>

JobStatuses == {"pending", "processing", "completed", "failed"}

NextStore ==
    \/ \E u \in Standard : StoreCreate(u)
    \/ \E j \in 1..MaxJobs, s \in JobStatuses,
          res \in {"none", "output", "error"} : StoreUpdate(j, s, res)
    \/ \E j \in 1..MaxJobs : StoreDelete(j)

SpecStore == Init /\ [][NextStore]_vars

----------------------------------------------------------------------------
(* The pipeline with privileged users submitting *)

Privileged == {u \in Users : Role(u) = "admin"}

NextPrivileged ==
    \/ \E r \in ReqIds, u \in Privileged : CreateJobAdmin(r, u)
    \/ \E r \in ReqIds, u \in Privileged, n \in Sizes, m \in Sizes :
          CreateBatchAdmin(r, u, n, m)
    \/ \E j \in DOMAIN exec, ok \in BOOLEAN : ExecTransform(j, ok)
    \/ \E j \in DOMAIN exec : ExecRefund(j)
    \/ \E j \in DOMAIN exec : ExecRecord(j)
    \/ DbFail
    \/ DbRecover

SpecPrivileged == Init /\ [][NextPrivileged]_vars

----------------------------------------------------------------------------
(* controllers/creditController.ts: getCurrentUserCredits *)

\* a getCurrentUserCredits that reads the account row without testing for it
getCurrentUserCreditsRow(username, role) ==
    IF dbUp THEN user_credits[username]
    ELSE getCreditsFallback(inMemoryCredits, username, role)[username].credits

\* the credits in the response: the row's, 0 without a row, the fallback
\* entry's when getUserCredits throws
getCurrentUserCredits(username, role) ==
    IF dbUp
    THEN IF user_credits[username] # NoRow THEN user_credits[username] ELSE 0
    ELSE getCreditsFallback(inMemoryCredits, username, role)[username].credits

\* the handler runs: getCreditsFallback creates the entry it answers from
ReadCredits(u) ==
    /\ ~dbUp
    /\ inMemoryCredits' = getCreditsFallback(inMemoryCredits, u, Role(u))
    /\ inMemoryCredits' # inMemoryCredits
    /\ UNCHANGED <<dbUp, user_credits, credit_transactions, jobVars, reqs,
                   exec, histVars, dbJobVars, variantVars, txs, initial_credits, ledgerHist,
                   responses>>

----------------------------------------------------------------------------
(* Single submissions by standard users, the store failing and recovering *)

NextSubmit ==
    \/ \E r \in ReqIds, u \in Standard : CreateJobCheck(r, u)
    \/ \E r \in ReqIds : Insufficient(r)
    \/ \E r \in ReqIds : CreateJobDeduct(r)
    \/ \E j \in DOMAIN exec, ok \in BOOLEAN : ExecTransform(j, ok)
    \/ \E j \in DOMAIN exec : ExecRefund(j)
    \/ \E j \in DOMAIN exec : ExecRecord(j)
    \/ \E u \in Users : ReadCredits(u)
    \/ DbFail
    \/ DbRecover

SpecSubmit == Init /\ [][NextSubmit]_vars

----------------------------------------------------------------------------
(* Single submissions after earlier outages: the process has served fallback
   debits before, so user1's fallback entry holds what they left of it *)

InitDrained ==
    /\ dbUp = TRUE
    /\ user_credits \in
         {t \in [Users -> (0..MaxInitial) \cup {AdminCredits}] :
            /\ t["admin"] = AdminCredits
            /\ t["boss"] = AdminCredits
            /\ t["user1"] # AdminCredits}
    /\ inMemoryCredits \in
         {("admin" :> [credits |-> AdminCredits, role |-> "admin"]) @@
          ("user1" :> [credits |-> c, role |-> "user"]) : c \in 0..MaxInitial}
    /\ credit_transactions = <<>>
    /\ jobs = <<>>
    /\ detached = <<>>
    /\ nextJobId = 1
    /\ reqs = [r \in ReqIds |-> Idle]
    /\ exec = <<>>
    /\ processing_history = {}
    /\ images_processed = 0
    /\ db_jobs = <<>>
    /\ db_jobs_seq = 0
    /\ db_exec = <<>>
    /\ initial_credits = user_credits
    /\ debits = <<>>
    /\ refunds = <<>>
    /\ bulk = [u \in Users |-> Zero]
    /\ granted = [u \in Users |-> [durable |-> 0, fallback |-> 0, calls |-> 0]]
    /\ grant_log = <<>>
    /\ transitions = {}
    /\ responses = <<>>
    /\ now = 0
    /\ jobsById = <<>>
    /\ created = <<>>
    /\ txs = [t \in TxIds |-> NoTx]

SpecDrained == InitDrained /\ [][NextSubmit]_vars

----------------------------------------------------------------------------
(* The ledger driven by grant requests of any caller, and balance reads *)

NextGrant ==
    \/ \E caller \in Users, username \in Users \cup {""},
          creditsToGrant \in -1..MaxAmount :
          GrantCredits(caller, username, creditsToGrant)
    \/ \E u \in Users : ReadCredits(u)
    \/ DbFail
    \/ DbRecover

SpecGrant == Init /\ [][NextGrant]_vars

----------------------------------------------------------------------------
(* Submissions by standard and by privileged users side by side *)

NextMixed ==
    \/ \E r \in ReqIds, u \in Standard : CreateJobCheck(r, u)
    \/ \E r \in ReqIds : Insufficient(r)
    \/ \E r \in ReqIds : CreateJobDeduct(r)
    \/ \E r \in ReqIds, u \in Privileged : CreateJobAdmin(r, u)
    \/ \E j \in DOMAIN exec, ok \in BOOLEAN : ExecTransform(j, ok)
    \/ \E j \in DOMAIN exec : ExecRefund(j)
    \/ \E j \in DOMAIN exec : ExecRecord(j)
    \/ DbFail
    \/ DbRecover

SpecMixed == Init /\ [][NextMixed]_vars

----------------------------------------------------------------------------
(* routes/jobs.ts: router.delete("/:id"), one step per awaited query *)

\* models/jobs deleteJob(jobId) on the Map; the running activation keeps
\* the object
deleteJob(jobId) ==
    IF jobId \in DOMAIN jobs
    THEN /\ jobs' = Remove(jobs, jobId)
         /\ detached' = detached @@ (jobId :> jobs[jobId])
    ELSE UNCHANGED <<jobs, detached>>

\* the request arrives with a numeric id and the SELECT is issued
DeleteRouteStart(r, caller, jobId) ==
    /\ FreeSlot(r)
    /\ reqs' = [reqs EXCEPT ![r] =
         [Idle EXCEPT !.kind = "delete", !.user = caller, !.pc = "select",
                      !.job = jobId]]
    /\ UNCHANGED <<dbUp, ledgerVars, jobVars, exec, histVars, dbJobVars,
                   variantVars, txs, initial_credits, ledgerHist, responses>>

\* SELECT ... WHERE id = $1 AND user_id = $2 settles: 404 when no row is the
\* caller's, the DELETE is issued when one is; when the query throws, the
\* catch block deletes from the Map by id
DeleteRouteSelect(r) ==
    /\ reqs[r].kind = "delete"
    /\ reqs[r].pc = "select"
    /\ LET jobId == reqs[r].job
           userId == UserId(reqs[r].user)
       IN  IF dbUp
           THEN /\ reqs' = [reqs EXCEPT ![r] =
                     IF jobId \in DOMAIN db_jobs
                        /\ db_jobs[jobId].user_id = userId
                     THEN [@ EXCEPT !.pc = "delete"] ELSE Idle]
                /\ UNCHANGED <<jobs, detached>>
           ELSE /\ deleteJob(jobId)
                /\ reqs' = [reqs EXCEPT ![r] = Idle]
    /\ UNCHANGED <<dbUp, ledgerVars, nextJobId, transitions, exec, histVars,
                   dbJobVars, variantVars, txs, initial_credits, ledgerHist, responses>>

\* DELETE FROM s302.jobs WHERE id = $1 AND user_id = $2 settles; when it
\* throws, the catch block deletes from the Map by id
DeleteRouteDelete(r) ==
    /\ reqs[r].kind = "delete"
    /\ reqs[r].pc = "delete"
    /\ LET jobId == reqs[r].job
           userId == UserId(reqs[r].user)
       IN  IF dbUp
           THEN /\ db_jobs' =
                     IF jobId \in DOMAIN db_jobs
                        /\ db_jobs[jobId].user_id = userId
                     THEN Remove(db_jobs, jobId) ELSE db_jobs
                /\ UNCHANGED <<jobs, detached>>
           ELSE /\ deleteJob(jobId)
                /\ UNCHANGED db_jobs
    /\ reqs' = [reqs EXCEPT ![r] = Idle]
    /\ UNCHANGED <<dbUp, ledgerVars, nextJobId, transitions, exec, histVars,
                   db_jobs_seq, db_exec, variantVars, txs, initial_credits, ledgerHist,
                   responses>>

NextDelete ==
    \/ \E r \in ReqIds, u \in Standard : CreateJobCheck(r, u)
    \/ \E r \in ReqIds : Insufficient(r)
    \/ \E r \in ReqIds : CreateJobDeduct(r)
    \/ \E r \in ReqIds, u \in Privileged : CreateJobAdmin(r, u)
    \/ \E r \in ReqIds, u \in Users : DbCreateJobCheck(r, u)
    \/ \E r \in ReqIds : DbCreateJobInsert(r)
    \/ \E r \in ReqIds : DbCreateJobDeduct(r)
    \/ \E r \in ReqIds, caller \in Users, jobId \in 1..MaxJobs :
          DeleteRouteStart(r, caller, jobId)
    \/ \E r \in ReqIds : DeleteRouteSelect(r)
    \/ \E r \in ReqIds : DeleteRouteDelete(r)
    \/ DbFail
    \/ DbRecover

SpecDelete == Init /\ [][NextDelete]_vars

----------------------------------------------------------------------------
(* controllers/jobsController.ts: listJobs *)

\* a millisecond passes
Tick ==
    /\ now < MaxClock
    /\ now' = now + 1
    /\ UNCHANGED <<dbUp, ledgerVars, jobVars, reqs, exec, histVars, dbJobVars,
                   jobsById, created, txs, initial_credits, ledgerHist,
                   responses>>

\* models/jobs listJobsByUser: the ids of the jobs returned
listJobsByUser(u) ==
    {j \in DOMAIN jobs : Role(u) = "admin" \/ jobs[j].user = u}

\* listJobs over s302.jobs: SELECT * FROM s302.jobs WHERE user_id = $1
listJobsRows(u) ==
    {j \in DOMAIN db_jobs : db_jobs[j].user_id = UserId(u)}

\* the sort parameter as its characters: an optional "-" and the key
Sorts == {<<"created_at">>, <<"-", "created_at">>, <<"id">>, <<"-", "id">>,
          <<"status">>, <<"-", "status">>}

\* the place of a status value in the order of JavaScript's > on strings
StatusRank(s) ==
    CASE s = "completed" -> 1
      [] s = "failed" -> 2
      [] s = "pending" -> 3
      [] OTHER -> 4

\* (a as any)[key] of the job with id j
KeyOf(j, key) ==
    CASE key = "id" -> j
      [] key = "created_at" -> jobs[j].created_at
      [] OTHER -> StatusRank(jobs[j].status)

\* the comparator handed to Array.prototype.sort
compare(a, b, key, dir) == (IF KeyOf(a, key) > KeyOf(b, key) THEN 1 ELSE -1) * dir

Arrangements(S) ==
    {f \in [1..Cardinality(S) -> S] : \A i, k \in DOMAIN f : i # k => f[i] # f[k]}

\* the arrays [...filtered].sort(comparator) can return: no two elements
\* stand against a verdict the comparator gives in both argument orders;
\* where it contradicts itself (equal keys) the order is the engine's choice
sortedOrders(S, key, dir) ==
    {f \in Arrangements(S) :
        \A i, k \in DOMAIN f :
            i < k => ~(compare(f[i], f[k], key, dir) > 0
                       /\ compare(f[k], f[i], key, dir) < 0)}

\* Array.prototype.slice(start, end) for 0 <= start <= end
slice(f, start, end) ==
    LET hi == IF end < Len(f) THEN end ELSE Len(f)
    IN  IF start >= hi THEN <<>> ELSE [i \in 1..(hi - start) |-> f[start + i]]

\* a listJobs without the status filter
listJobsUnfiltered(user, status, sort, p, ps) ==
    LET all == listJobsByUser(user)
        key == IF Head(sort) = "-" THEN sort[2] ELSE sort[1]
        dir == IF Head(sort) = "-" THEN -1 ELSE 1
    IN  {[page |-> p, pageSize |-> ps, total |-> Len(sorted),
          items |-> slice(sorted, (p - 1) * ps, (p - 1) * ps + ps)] :
            sorted \in sortedOrders(all, key, dir)}

\* the data of the responses listJobs can give; status "" is no filter
listJobs(user, status, sort, p, ps) ==
    LET all == listJobsByUser(user)
        filtered == IF status # "" THEN {j \in all : jobs[j].status = status}
                    ELSE all
        key == IF Head(sort) = "-" THEN sort[2] ELSE sort[1]
        dir == IF Head(sort) = "-" THEN -1 ELSE 1
    IN  {[page |-> p, pageSize |-> ps, total |-> Len(sorted),
          items |-> slice(sorted, (p - 1) * ps, (p - 1) * ps + ps)] :
            sorted \in sortedOrders(filtered, key, dir)}

NextList ==
    \/ \E r \in ReqIds, u \in Standard : CreateJobCheck(r, u)
    \/ \E r \in ReqIds : Insufficient(r)
    \/ \E r \in ReqIds : CreateJobDeduct(r)
    \/ \E r \in ReqIds, u \in Privileged : CreateJobAdmin(r, u)
    \/ \E j \in DOMAIN exec, ok \in BOOLEAN : ExecTransform(j, ok)
    \/ \E j \in DOMAIN exec : ExecRefund(j)
    \/ \E j \in DOMAIN exec : ExecRecord(j)
    \/ Tick

SpecList == Init /\ [][NextList]_vars

----------------------------------------------------------------------------
(* models/jobs, the store keyed by time: jobsById *)

\* createJob: id = Date.now() + Math.floor(Math.random() * 1000), with the
\* random term drawn from 0..MaxRandom; jobsById.set(id, job)
VariantCreate(u, rnd) ==
    /\ Len(created) < MaxCreated
    /\ LET id == now + rnd
           job == [user |-> u, role |-> Role(u), status |-> "pending",
                   result |-> "null", created_at |-> now, updated_at |-> now]
       IN  /\ jobsById' = [x \in DOMAIN jobsById \cup {id} |->
                              IF x = id THEN job ELSE jobsById[x]]
           /\ created' = Append(created, id)
    /\ UNCHANGED <<dbUp, ledgerVars, jobVars, reqs, exec, histVars, dbJobVars,
                   now, txs, initial_credits, ledgerHist, responses>>

\* deleteJob(jobId): jobsById.delete(jobId)
VariantDelete(jobId) ==
    /\ jobId \in DOMAIN jobsById
    /\ jobsById' = Remove(jobsById, jobId)
    /\ UNCHANGED <<dbUp, ledgerVars, jobVars, reqs, exec, histVars, dbJobVars,
                   now, created, txs, initial_credits, ledgerHist, responses>>

NextVariant ==
    \/ \E u \in Users, rnd \in 0..MaxRandom : VariantCreate(u, rnd)
    \/ \E jobId \in 0..(MaxClock + MaxRandom) : VariantDelete(jobId)
    \/ Tick

SpecVariant == Init /\ [][NextVariant]_vars

----------------------------------------------------------------------------
(* Single submissions and batch-process requests of users of every role *)

NextAnyRole ==
    \/ \E r \in ReqIds, u \in Standard : CreateJobCheck(r, u)
    \/ \E r \in ReqIds : Insufficient(r)
    \/ \E r \in ReqIds : CreateJobDeduct(r)
    \/ \E r \in ReqIds, u \in Privileged : CreateJobAdmin(r, u)
    \/ \E r \in ReqIds, u \in Users, n \in Sizes, k \in 0..MaxBatch :
          BatchProcessCheck(r, u, n, k)
    \/ \E r \in ReqIds, t \in BOOLEAN, k \in 0..MaxBatch :
          BatchProcessImage(r, t, k)
    \/ \E r \in ReqIds : BatchProcessUpdate(r)
    \/ \E j \in DOMAIN exec, ok \in BOOLEAN : ExecTransform(j, ok)
    \/ \E j \in DOMAIN exec : ExecRefund(j)
    \/ \E j \in DOMAIN exec : ExecRecord(j)
    \/ DbFail
    \/ DbRecover

SpecAnyRole == Init /\ [][NextAnyRole]_vars

----------------------------------------------------------------------------
(* models/credits.ts deductCredits inside models/database.ts withTransaction,
   one step per awaited query *)

\* the transaction has taken the row lock and not yet committed or rolled back
HoldsLock(t) == txs[t].pc \in {"update", "insert", "commit"}

\* a row that is never found locked
RowNeverLocked(t, username) == FALSE

\* SELECT ... FOR UPDATE of transaction t waits: another open transaction
\* holds the lock of the account's row
RowLocked(t, username) ==
    \E o \in TxIds \ {t} : txs[o].username = username /\ HoldsLock(o)

\* deductCredits(username, jobId, creditsToDeduct) is called: connect() and
\* BEGIN settle and the SELECT is issued, or connect() rejects
TxBegin(t, username, amount) ==
    /\ txs[t].pc = "idle"
    /\ \A o \in TxIds : o < t => txs[o].pc # "idle"
    /\ txs' = [txs EXCEPT ![t] =
         [pc |-> IF dbUp THEN "select" ELSE "thrown", username |-> username,
          jobId |-> t, amount |-> amount, seen |-> 0]]
    /\ UNCHANGED <<dbUp, ledgerVars, jobVars, reqs, exec, histVars, dbJobVars,
                   variantVars, initial_credits, ledgerHist, responses>>

\* the SELECT settles once the row is not locked: it locks the row and
\* returns its credits; no row or too few credits throw and withTransaction
\* rolls back; otherwise the UPDATE is issued
TxSelect(t) ==
    /\ txs[t].pc = "select"
    /\ LET u == txs[t].username
       IN  IF ~dbUp \/ user_credits[u] = NoRow
           THEN txs' = [txs EXCEPT ![t].pc = "thrown"]
           ELSE /\ ~RowLocked(t, u)
                /\ txs' = [txs EXCEPT ![t] =
                     [@ EXCEPT !.seen = user_credits[u],
                               !.pc = IF user_credits[u] < txs[t].amount
                                      THEN "thrown" ELSE "update"]]
    /\ UNCHANGED <<dbUp, ledgerVars, jobVars, reqs, exec, histVars, dbJobVars,
                   variantVars, initial_credits, ledgerHist, responses>>

\* the UPDATE settles inside the transaction and the INSERT is issued; then
\* the INSERT settles and COMMIT is issued; a query that fails rolls back
TxQuery(t) ==
    /\ txs[t].pc \in {"update", "insert"}
    /\ txs' = [txs EXCEPT ![t].pc =
         IF ~dbUp THEN "thrown"
         ELSE IF txs[t].pc = "update" THEN "insert" ELSE "commit"]
    /\ UNCHANGED <<dbUp, ledgerVars, jobVars, reqs, exec, histVars, dbJobVars,
                   variantVars, initial_credits, ledgerHist, responses>>

\* COMMIT settles: the decrement and the deduct row become visible together,
\* or the connection is lost and neither does
TxCommit(t) ==
    /\ txs[t].pc = "commit"
    /\ IF dbUp
       THEN /\ user_credits' =
                 UpdateCredits(user_credits, txs[t].username, -txs[t].amount)
            /\ credit_transactions' =
                 Append(credit_transactions,
                        Row(txs[t].username, txs[t].jobId, txs[t].amount,
                            "deduct", "Image processing job"))
            /\ txs' = [txs EXCEPT ![t].pc = "committed"]
       ELSE /\ txs' = [txs EXCEPT ![t].pc = "thrown"]
            /\ UNCHANGED <<user_credits, credit_transactions>>
    /\ UNCHANGED <<dbUp, inMemoryCredits, jobVars, reqs, exec, histVars,
                   dbJobVars, variantVars, initial_credits, ledgerHist,
                   responses>>

NextTx ==
    \/ \E t \in TxIds, u \in Users, a \in 1..MaxAmount : TxBegin(t, u, a)
    \/ \E t \in TxIds : TxSelect(t)
    \/ \E t \in TxIds : TxQuery(t)
    \/ \E t \in TxIds : TxCommit(t)
    \/ DbFail
    \/ DbRecover

SpecTx == Init /\ [][NextTx]_vars

----------------------------------------------------------------------------
(* processJobAsync when refundCreditsFallback throws as well *)

\* the error of the fallback refund leaves processJobAsync
ExecRefundEscapes(j) ==
    /\ j \in DOMAIN exec
    /\ exec[j].pc = "refund"
    /\ ~dbUp
    /\ refunds' = refunds @@ (j :> [durable |-> 0, fallback |-> 0, added |-> 0])
    /\ exec' = [exec EXCEPT ![j].pc = "done"]
    /\ UNCHANGED <<dbUp, ledgerVars, jobVars, reqs, histVars, dbJobVars,
                   variantVars, txs, initial_credits, debits, bulk, granted,
                   grant_log, responses>>

\* refundCredits throws, refundCreditsFallback throws, the inner catch logs
\* it; processJobAsync goes on to recordProcessingHistory
ExecRefundThrown(j) ==
    /\ j \in DOMAIN exec
    /\ exec[j].pc = "refund"
    /\ ~dbUp
    /\ refunds' = refunds @@ (j :> [durable |-> 0, fallback |-> 0, added |-> 0])
    /\ exec' = [exec EXCEPT ![j].pc = "record"]
    /\ UNCHANGED <<dbUp, ledgerVars, jobVars, reqs, histVars, dbJobVars,
                   variantVars, txs, initial_credits, debits, bulk, granted,
                   grant_log, responses>>

NextRefundFault ==
    \/ \E r \in ReqIds, u \in Standard : CreateJobCheck(r, u)
    \/ \E r \in ReqIds : Insufficient(r)
    \/ \E r \in ReqIds : CreateJobDeduct(r)
    \/ \E j \in DOMAIN exec, ok \in BOOLEAN : ExecTransform(j, ok)
    \/ \E j \in DOMAIN exec : ExecRefund(j)
    \/ \E j \in DOMAIN exec : ExecRefundThrown(j)
    \/ \E j \in DOMAIN exec : ExecRecord(j)
    \/ DbFail
    \/ DbRecover

SpecRefundFault == Init /\ [][NextRefundFault]_vars

----------------------------------------------------------------------------
(* processJobAsync beside rows of s302.jobs: the outcome append *)

NextHistory ==
    \/ \E r \in ReqIds, u \in Standard : CreateJobCheck(r, u)
    \/ \E r \in ReqIds : Insufficient(r)
    \/ \E r \in ReqIds : CreateJobDeduct(r)
    \/ \E r \in ReqIds, u \in Users : DbCreateJobCheck(r, u)
    \/ \E r \in ReqIds : DbCreateJobInsert(r)
    \/ \E r \in ReqIds : DbCreateJobDeduct(r)
    \/ \E j \in DOMAIN exec, ok \in BOOLEAN : ExecTransform(j, ok)
    \/ \E j \in DOMAIN exec : ExecRefund(j)
    \/ \E j \in DOMAIN exec : ExecRecord(j)
    \/ DbFail
    \/ DbRecover

SpecHistory == Init /\ [][NextHistory]_vars

----------------------------------------------------------------------------
(* Submissions, deletions and both executors: a job can be gone by the time
   processJobAsync loads it *)

NextAbort ==
    \/ \E r \in ReqIds, u \in Standard : CreateJobCheck(r, u)
    \/ \E r \in ReqIds : Insufficient(r)
    \/ \E r \in ReqIds : CreateJobDeduct(r)
    \/ \E r \in ReqIds, u \in Standard : DbCreateJobCheck(r, u)
    \/ \E r \in ReqIds : DbCreateJobInsert(r)
    \/ \E r \in ReqIds : DbCreateJobDeduct(r)
    \/ \E r \in ReqIds, caller \in Standard, jobId \in 1..MaxJobs :
          DeleteRouteStart(r, caller, jobId)
    \/ \E r \in ReqIds : DeleteRouteSelect(r)
    \/ \E r \in ReqIds : DeleteRouteDelete(r)
    \/ \E j \in DOMAIN exec, ok \in BOOLEAN : ExecTransform(j, ok)
    \/ \E j \in DOMAIN exec : ExecRefund(j)
    \/ \E j \in DOMAIN exec : ExecRecord(j)
    \/ \E j \in 1..MaxJobs : DbProcessStep(j)
    \/ DbFail
    \/ DbRecover

SpecAbort == Init /\ [][NextAbort]_vars

----------------------------------------------------------------------------
(* Single submissions of standard users with deletions, every awaited call
   settling *)

\* one step of the processJobAsync activation of job j
ExecStep(j) ==
    \/ \E ok \in BOOLEAN : ExecTransform(j, ok)
    \/ ExecRefund(j)
    \/ ExecRecord(j)

NextSettle ==
    \/ \E r \in ReqIds, u \in Standard : CreateJobCheck(r, u)
    \/ \E r \in ReqIds : Insufficient(r)
    \/ \E r \in ReqIds : CreateJobDeduct(r)
    \/ \E j \in 1..MaxJobs : ExecStep(j)
    \/ \E u \in Standard, j \in DOMAIN jobs : DeleteJob(u, j)
    \/ DbFail
    \/ DbRecover

\* the ledger calls and the Transformer call settle, so each request handler
\* and each activation takes its next step
SpecSettle ==
    /\ Init
    /\ [][NextSettle]_vars
    /\ \A j \in 1..MaxJobs : WF_vars(ExecStep(j))
    /\ \A r \in ReqIds : WF_vars(CreateJobDeduct(r) \/ Insufficient(r))

----------------------------------------------------------------------------
(* Properties *)

Terminal == {"completed", "failed"}

Owner(j) == Object(j).user

JobIds == DOMAIN jobs \cup DOMAIN detached

\* jobs of user u handed to the executor
Admitted(u) == {j \in DOMAIN exec : exec[j].user = u}

RECURSIVE SumOver(_, _)
SumOver(f, S) ==
    IF S = {} THEN 0
    ELSE LET x == CHOOSE y \in S : TRUE IN f[x] + SumOver(f, S \ {x})

\* number of debits of u's jobs that store took
Debits(u, store) ==
    Cardinality({j \in DOMAIN debits : Owner(j) = u /\ debits[j] = store})

\* number of refunds of u's jobs that store served
Refunds(u, store) ==
    SumOver([j \in DOMAIN refunds |-> refunds[j][store]],
            {j \in DOMAIN refunds : exec[j].user = u})

\* C1: with the durable store reachable, the jobs of a standard owner handed
\* to the executor never cost more than the credits the owner had or received
C1_AdmissionBounded ==
    \A u \in Standard :
        initial_credits[u] # NoRow =>
            Cardinality(Admitted(u)) * JobCost
              <= initial_credits[u] + granted[u].durable
                 + JobCost * Refunds(u, "durable")

\* C2: no standard account has a negative balance, in either store
C2_NonNegative ==
    \A u \in Standard :
        /\ user_credits[u] # NoRow => user_credits[u] >= 0
        /\ u \in DOMAIN inMemoryCredits => inMemoryCredits[u].credits >= 0

\* C3: a job of a standard owner is in the job store only with its debit
\* committed on the durable or the fallback path
C3_DebitBeforeJob ==
    \A j \in DOMAIN jobs :
        jobs[j].role = "user" =>
            j \in DOMAIN debits /\ debits[j] \in {"durable", "fallback"}

\* C4: a debit against a standard account whose durable balance is below the
\* amount changes neither store nor the transaction log
C4_RejectedDebitMutatesNothing ==
    [][\A r \in ReqIds :
          ( /\ reqs[r].pc = "deduct"
            /\ reqs'[r] # reqs[r]
            /\ dbUp
            /\ user_credits[reqs[r].user] # NoRow
            /\ user_credits[reqs[r].user] < JobCost )
          => UNCHANGED ledgerVars]_vars

\* C5 as stated: with no grants, the balance read equals the initial balance
\* of the store that answers the read, minus the debits made plus the refunds
\* made, whichever store served them
C5_BalanceFormula ==
    \A u \in Standard :
        (initial_credits[u] # NoRow /\ granted[u].calls = 0) =>
            getCurrentUserCredits(u, Role(u)) =
                (IF dbUp THEN initial_credits[u] ELSE StarterCredits)
                - JobCost * (Debits(u, "durable") + Debits(u, "fallback"))
                - (bulk[u].durable + bulk[u].fallback)
                + JobCost * (Refunds(u, "durable") + Refunds(u, "fallback"))

\* C5 amended: with no grants, each store's balance equals that store's
\* initial balance minus the debits it took plus the refunds it served
C5_BalancePerStore ==
    \A u \in Standard :
        granted[u].calls = 0 =>
            /\ user_credits[u] # NoRow =>
                 user_credits[u] =
                     initial_credits[u]
                     - JobCost * Debits(u, "durable") - bulk[u].durable
                     + JobCost * Refunds(u, "durable")
            /\ u \in DOMAIN inMemoryCredits =>
                 inMemoryCredits[u].credits =
                     StarterCredits
                     - JobCost * Debits(u, "fallback") - bulk[u].fallback
                     + JobCost * Refunds(u, "fallback")

\* C5 witness: both stores hold a standard account that took a debit and
\* served a refund between them
C5_Witness ==
    \E u \in Standard :
        /\ granted[u].calls = 0
        /\ user_credits[u] # NoRow
        /\ u \in DOMAIN inMemoryCredits
        /\ Debits(u, "durable") + Debits(u, "fallback") >= 2
        /\ Debits(u, "fallback") >= 1
        /\ Refunds(u, "durable") + Refunds(u, "fallback") >= 1

Legal == {<<"pending", "processing">>, <<"processing", "completed">>,
          <<"processing", "failed">>}

\* C7: every status change is pending->processing, processing->completed or
\* processing->failed
C7_LegalTransitions == transitions \subseteq Legal

\* C10: the response to a submission reports each job as pending
C10_ResponsePending ==
    \A j \in DOMAIN responses : responses[j] = "pending"

\* C8 as stated: a step that leaves a completed or failed job in the store
\* leaves its status, result and updated_at as they were
C8_TerminalNoOp ==
    [][\A j \in DOMAIN jobs :
          (jobs[j].status \in Terminal /\ j \in DOMAIN jobs')
              => jobs'[j] = jobs[j]]_vars

\* a job is in processing, in the Map or in s302.jobs
InProcessing(j) ==
    \/ j \in DOMAIN jobs /\ jobs[j].status = "processing"
    \/ j \in DOMAIN db_jobs /\ db_jobs[j].status = "processing"

\* a job is completed or failed, in the Map or in s302.jobs
InTerminal(j) ==
    \/ j \in DOMAIN jobs /\ jobs[j].status \in Terminal
    \/ j \in DOMAIN db_jobs /\ db_jobs[j].status \in Terminal

\* C9 as stated: a job the executor moved to processing eventually is
\* completed or failed
C9_EventuallyTerminal ==
    \A j \in 1..MaxJobs : InProcessing(j) ~> InTerminal(j)

\* rows of credit_transactions that name job jobId
JobRows(jobId) ==
    {i \in 1..Len(credit_transactions) : credit_transactions[i].job_id = jobId}

\* C11 as stated: a job of a privileged owner, whatever the username, has no
\* debit, no refund and no log row, and the owner's durable balance is as it
\* was at the start
C11_PrivilegedUntouched ==
    \A j \in DOMAIN exec :
        Role(exec[j].user) = "admin" =>
            /\ j \notin DOMAIN debits
            /\ j \notin DOMAIN refunds
            /\ JobRows(j) = {}
            /\ user_credits[exec[j].user] = initial_credits[exec[j].user]

\* rows of credit_transactions of one type that name job jobId
JobRowsOf(jobId, type) ==
    {i \in JobRows(jobId) : credit_transactions[i].transaction_type = type}

\* the only thing user u did is to submit job j, which failed and was settled
OnlyFailedJob(u, j) ==
    /\ Role(u) = "user"
    /\ initial_credits[u] = 1
    /\ nextJobId = 2
    /\ j \in DOMAIN exec
    /\ exec[j].user = u
    /\ exec[j].pc \in {"record", "done"}
    /\ ~exec[j].success
    /\ \A r \in ReqIds : reqs[r] = Idle
    /\ bulk[u] = Zero
    /\ granted[u].calls = 0

\* C12: with the durable store reachable, a standard user with balance 1
\* whose single job failed has balance 1 again, and the log holds exactly one
\* deduct row and one refund row for the job
C12_FailedJobRefunded ==
    \A u \in Standard, j \in DOMAIN exec :
        OnlyFailedJob(u, j) =>
            /\ user_credits[u] = 1
            /\ Cardinality(JobRowsOf(j, "deduct")) = 1
            /\ Cardinality(JobRowsOf(j, "refund")) = 1
            /\ Cardinality(JobRows(j)) = 2

\* C12 witness: the failed single job of a user who had one credit is settled
C12_Witness ==
    \E u \in Standard, j \in DOMAIN exec :
        OnlyFailedJob(u, j) /\ jobs[j].status = "failed"

\* a step keeps every fallback entry there is as it is
FallbackKept ==
    \A u \in DOMAIN inMemoryCredits :
        u \in DOMAIN inMemoryCredits' /\ inMemoryCredits'[u] = inMemoryCredits[u]

\* C13: a submission of a standard user whose account holds 0 credits takes
\* the 402 branch and ends there; neither step creates a job, starts an
\* execution or changes a balance or the log
C13_ZeroBalanceRejected ==
    [][\A r \in ReqIds :
          /\ ( /\ reqs[r] = Idle
               /\ reqs'[r].kind = "createJob"
               /\ dbUp
               /\ user_credits[reqs'[r].user] = 0 )
             => /\ reqs'[r].pc = "insufficient"
                /\ UNCHANGED <<jobs, exec, user_credits, credit_transactions>>
                /\ FallbackKept
          /\ (reqs[r].pc = "insufficient" /\ reqs'[r] # reqs[r])
             => /\ reqs'[r] = Idle
                /\ UNCHANGED <<jobs, exec, user_credits, credit_transactions>>
                /\ FallbackKept]_vars

\* C13 witness: a submission against an account of 0 credits is in the 402
\* branch, and no job exists
C13_Witness ==
    \E r \in ReqIds :
        /\ reqs[r].kind = "createJob"
        /\ reqs[r].pc = "insufficient"
        /\ dbUp
        /\ user_credits[reqs[r].user] = 0
        /\ initial_credits[reqs[r].user] = 0
        /\ jobs = <<>>

\* C14 as stated: a debit of a standard user's submission made with the durable store
\* unreachable takes the amount from the user's fallback balance and leaves
\* the durable table and the log alone, and the job is handed to the executor;
\* a job past the Transformer call is completed or failed; while the store is
\* unreachable a balance read returns the fallback balance
C14_FallbackDebit ==
    /\ [][\A r \in ReqIds :
             ( /\ reqs[r].kind = "createJob"
               /\ reqs[r].pc = "deduct"
               /\ reqs'[r] # reqs[r]
               /\ ~dbUp )
             => LET u == reqs[r].user
                    j == reqs[r].job
                IN  /\ FallbackCredits(inMemoryCredits', u) =
                         FallbackCredits(getCreditsFallback(inMemoryCredits,
                                             u, Role(u)), u) - JobCost
                    /\ UNCHANGED <<user_credits, credit_transactions>>
                    /\ debits'[j] = "fallback"
                    /\ j \in DOMAIN exec'
                    /\ jobs'[j].status = "processing"]_vars
    /\ [](\A j \in DOMAIN exec :
             exec[j].pc # "transform" => jobs[j].status \in Terminal)
    /\ [](\A u \in Standard :
             (~dbUp /\ u \in DOMAIN inMemoryCredits) =>
                 getCurrentUserCredits(u, Role(u)) = inMemoryCredits[u].credits)

\* C15 as stated: a job whose admission debit was taken by neither store is
\* not handed to the executor and no success response names it
C15_FailedDebitReported ==
    \A j \in DOMAIN debits :
        debits[j] = "failed" => j \notin DOMAIN exec /\ j \notin DOMAIN responses

\* C16 as stated: checkUserCredits answers true for every privileged user in
\* every state of the stores, and for a standard user exactly when the balance
\* a read returns is at least the amount
C16_SufficientCredits ==
    \A u \in Users, a \in 1..MaxBatch :
        checkUserCredits(u, Role(u), a) =
            (Role(u) = "admin" \/ getCurrentUserCredits(u, Role(u)) >= a)

\* C17: in every state of the stores a balance read returns a value: the
\* account row's credits, or 0 without a row, when the durable store is
\* reachable, and the fallback entry's credits otherwise
C17_BalanceAlwaysReturned ==
    \A u \in Users :
        LET credits == getCurrentUserCredits(u, Role(u))
        IN  /\ credits # NoRow
            /\ (dbUp /\ user_credits[u] # NoRow) => credits = user_credits[u]
            /\ (dbUp /\ user_credits[u] = NoRow) => credits = 0
            /\ (~dbUp /\ u \in DOMAIN inMemoryCredits)
                   => credits = inMemoryCredits[u].credits
            /\ (~dbUp /\ u \notin DOMAIN inMemoryCredits)
                   => credits = getDefaultCredits(Role(u))

\* C17 witness: the store is reachable again after an outage in which the
\* fallback store took a debit, the user has no account row, and the read
\* returns 0
C17_Witness ==
    \E j \in DOMAIN debits :
        /\ debits[j] = "fallback"
        /\ dbUp
        /\ user_credits[jobs[j].user] = NoRow
        /\ jobs[j].user \in DOMAIN inMemoryCredits
        /\ getCurrentUserCredits(jobs[j].user, "user") = 0

\* the grant call a step logged
LastGrant == grant_log'[Len(grant_log')]

\* C18: a grant call by a caller whose role is not admin, or without a
\* username, or with an amount that is not positive, is answered 403 or 400
\* and changes no balance in either store and no log row
C18_RejectedGrant ==
    [][( /\ Len(grant_log') = Len(grant_log) + 1
         /\ \/ Role(LastGrant.caller) # "admin"
            \/ LastGrant.username = ""
            \/ LastGrant.creditsToGrant <= 0 )
       => /\ LastGrant.status \in {400, 403}
          /\ UNCHANGED ledgerVars]_vars

\* C18 witness: a standard caller's grant to itself was answered 403, with
\* the balances as they were at the start
C18_Witness ==
    \E i \in 1..Len(grant_log) :
        /\ grant_log[i].caller = "user1"
        /\ grant_log[i].username = "user1"
        /\ grant_log[i].creditsToGrant > 0
        /\ grant_log[i].status = 403
        /\ user_credits = initial_credits
        /\ credit_transactions = <<>>

\* C19 as stated: a grant answered 200 has added the amount to the target's
\* balance in the store that served it; served by the durable store, it has
\* appended one admin_grant row that names the caller, and nothing else
C19_GrantApplied ==
    [][( /\ Len(grant_log') = Len(grant_log) + 1
         /\ LastGrant.status = 200 )
       => LET u == LastGrant.username
              a == LastGrant.creditsToGrant
          IN  IF dbUp
              THEN /\ user_credits[u] # NoRow
                   /\ user_credits' = [user_credits EXCEPT ![u] = @ + a]
                   /\ credit_transactions' =
                        Append(credit_transactions,
                               Row(u, 0, a, "admin_grant", LastGrant.caller))
                   /\ UNCHANGED inMemoryCredits
              ELSE /\ FallbackCredits(inMemoryCredits', u) =
                        FallbackCredits(
                            ensureUser(initializeDefaultUsers(inMemoryCredits),
                                       u, "user"), u) + a
                   /\ UNCHANGED <<user_credits, credit_transactions>>]_vars

RECURSIVE LogSum(_, _, _)
\* sum of credits_used over the first n log rows of a user and a type
LogSum(n, username, type) ==
    IF n = 0 THEN 0
    ELSE LogSum(n - 1, username, type)
         + (IF /\ credit_transactions[n].username = username
               /\ credit_transactions[n].transaction_type = type
            THEN credit_transactions[n].credits_used ELSE 0)

\* C20 as stated: with the durable store reachable throughout, every account's
\* balance is its starting balance plus its admin_grant and refund rows minus
\* its deduct rows
C20_BalanceFromLog ==
    \A u \in Users :
        user_credits[u] # NoRow =>
            user_credits[u] =
                initial_credits[u]
                + LogSum(Len(credit_transactions), u, "admin_grant")
                + LogSum(Len(credit_transactions), u, "refund")
                - LogSum(Len(credit_transactions), u, "deduct")

\* C21 as stated: a listing for a standard user holds that user's jobs and
\* no others, and a listing for a privileged user holds every job, in the Map
\* and in s302.jobs
C21_ListingScope ==
    \A u \in Users :
        IF Role(u) = "admin"
        THEN /\ listJobsByUser(u) = DOMAIN jobs
             /\ listJobsRows(u) = DOMAIN db_jobs
        ELSE /\ listJobsByUser(u) = {j \in DOMAIN jobs : jobs[j].user = u}
             /\ listJobsRows(u) =
                  {j \in DOMAIN db_jobs : db_jobs[j].user_id = UserId(u)}

\* a getJob without the ownership test
getJobOfAnyone(caller, jobId) ==
    IF jobId <= 0 THEN [status |-> 400, data |-> "none"]
    ELSE IF jobId \notin DOMAIN jobs THEN [status |-> 404, data |-> "none"]
    ELSE [status |-> 200, data |-> jobs[jobId]]

\* controllers/jobsController.ts getJob: the response to caller for jobId
getJob(caller, jobId) ==
    IF jobId <= 0 THEN [status |-> 400, data |-> "none"]
    ELSE IF jobId \notin DOMAIN jobs THEN [status |-> 404, data |-> "none"]
    ELSE IF Role(caller) # "admin" /\ jobs[jobId].user # caller
         THEN [status |-> 403, data |-> "none"]
         ELSE [status |-> 200, data |-> jobs[jobId]]

\* C22: get job answers 200 with the job to its owner and to a privileged
\* user, 403 without content to a standard user who is not the owner, and
\* 404 for an id with no job
C22_GetJobAccess ==
    \A caller \in Users, jobId \in 1..MaxJobs :
        LET res == getJob(caller, jobId)
        IN  /\ jobId \notin DOMAIN jobs => res.status = 404 /\ res.data = "none"
            /\ jobId \in DOMAIN jobs =>
                 IF Role(caller) = "admin" \/ jobs[jobId].user = caller
                 THEN res.status = 200 /\ res.data = jobs[jobId]
                 ELSE res.status = 403 /\ res.data = "none"

\* C22 witness: the store holds a job of a privileged owner, which user1 is
\* refused, and a job of user1, which user1 gets, and an id is free
C22_Witness ==
    \E j, k \in DOMAIN jobs :
        /\ jobs[j].user = "boss"
        /\ jobs[k].user = "user1"
        /\ getJob("user1", j).status = 403
        /\ getJob("user1", k).status = 200
        /\ getJob("admin", k).data = jobs[k]
        /\ getJob("user1", MaxJobs + 1).status = 404

\* C23: a job leaves the Map or the jobs table only while a delete request
\* for it by its owner or by an administrator is being served, whether the
\* durable store is reachable or not
C23_DeleteByOwnerOrAdmin ==
    [][/\ \A j \in DOMAIN jobs \ DOMAIN jobs' :
             \E r \in ReqIds :
                 /\ reqs[r].kind = "delete"
                 /\ reqs[r].job = j
                 /\ Role(reqs[r].user) = "admin" \/ jobs[j].user = reqs[r].user
       /\ \A j \in DOMAIN db_jobs \ DOMAIN db_jobs' :
             \E r \in ReqIds :
                 /\ reqs[r].kind = "delete"
                 /\ reqs[r].job = j
                 /\ \/ Role(reqs[r].user) = "admin"
                    \/ db_jobs[j].user_id = UserId(reqs[r].user)]_vars

\* the jobs of owner u with the status asked for ("" asks for all)
Matching(u, status) ==
    {j \in DOMAIN jobs : jobs[j].user = u /\ (status = "" \/ jobs[j].status = status)}

\* f lists exactly the jobs S, ordered by key: ascending for dir 1,
\* descending for dir -1
OrderedBy(f, S, key, dir) ==
    /\ f \in Arrangements(S)
    /\ \A i, k \in DOMAIN f :
          i < k => IF dir = 1 THEN KeyOf(f[i], key) <= KeyOf(f[k], key)
                   ELSE KeyOf(f[i], key) >= KeyOf(f[k], key)

\* elements first..last of f, as far as f has them
Positions(f, first, last) ==
    [i \in 1..(IF last > Len(f) THEN Len(f) - first + 1 ELSE last - first + 1)
       |-> f[first + i - 1]]

PageNumbers == 1..MaxPage
PageSizes == 1..MaxPageSize

\* C24: for a standard owner, every answer of list jobs with a status
\* filter, a sort key and direction, page p and size ps reports the number
\* of the owner's jobs with that status as total, and its items are the
\* positions (p-1)*ps+1 .. p*ps of those jobs ordered by the key in the
\* requested direction
C24_ListPage ==
    \A u \in Standard, status \in {""} \cup JobStatuses, sort \in Sorts,
       p \in PageNumbers, ps \in PageSizes :
        \A res \in listJobs(u, status, sort, p, ps) :
            LET S == Matching(u, status)
                key == sort[Len(sort)]
                dir == IF Len(sort) = 2 THEN -1 ELSE 1
            IN  /\ res.total = Cardinality(S)
                /\ \E f \in Arrangements(S) :
                      /\ OrderedBy(f, S, key, dir)
                      /\ res.items = Positions(f, (p - 1) * ps + 1, p * ps)

\* C24 witness: the owner has a completed job and a job of another status,
\* created at different times; the second page of size 1 of all jobs,
\* newest first, is the older job, and the completed filter counts one
C24_Witness ==
    /\ 1 \in DOMAIN jobs /\ 2 \in DOMAIN jobs
    /\ jobs[1].user = "user1" /\ jobs[2].user = "user1"
    /\ jobs[1].created_at < jobs[2].created_at
    /\ jobs[1].status = "completed" /\ jobs[2].status = "failed"
    /\ listJobs("user1", "", <<"-", "created_at">>, 2, 1) =
         {[page |-> 2, pageSize |-> 1, total |-> 2, items |-> <<1>>]}
    /\ listJobs("user1", "completed", <<"-", "created_at">>, 1, 1) =
         {[page |-> 1, pageSize |-> 1, total |-> 1, items |-> <<1>>]}

\* C25 as stated: in every listing, of two jobs with equal sort keys the one
\* with the smaller id comes first, in both directions
C25_TiesByAscendingId ==
    \A u \in Users, sort \in Sorts :
        \A res \in listJobs(u, "", sort, 1, MaxJobs) :
            \A i, k \in DOMAIN res.items :
                (i < k /\ KeyOf(res.items[i], sort[Len(sort)])
                          = KeyOf(res.items[k], sort[Len(sort)]))
                    => res.items[i] < res.items[k]

\* C26: a get of the id a create has just returned, before anything else
\* touches the store, returns a job with status pending and result null
C26_CreateThenGet ==
    [][nextJobId' # nextJobId /\ nextJobId \in DOMAIN jobs' =>
          /\ findJobById(jobs', nextJobId) # NoJob
          /\ findJobById(jobs', nextJobId).status = "pending"
          /\ findJobById(jobs', nextJobId).result = "null"]_vars

\* C26 witness: the store has just created job 2 beside a job that was
\* updated, and finds it pending with no result
C26_Witness ==
    /\ nextJobId = 3
    /\ findJobById(jobs, 1).status = "completed"
    /\ findJobById(jobs, 2).status = "pending"
    /\ findJobById(jobs, 2).result = "null"
    /\ findJobById(jobs, 2).updated_at = 0

\* C27 as stated: every id a create returns differs from every id returned
\* by an earlier create on the same store
C27_DistinctIds ==
    \A i, k \in DOMAIN created : i # k => created[i] # created[k]

\* the jobs of owner u whose refund has been served
Refunded(u) == {j \in DOMAIN refunds : j \in DOMAIN exec /\ exec[j].user = u}

\* C28 as stated: when two jobs of one standard owner have failed and been
\* refunded, both refunds are in the owner's balances: the credits added
\* are the sum of the two amounts
C28_RefundsAllApplied ==
    \A u \in Standard :
        \A j, k \in Refunded(u) :
            j # k => refunds[j].added + refunds[k].added = 2 * JobCost

\* C29: no step of submitting, executing, refunding or debiting lowers the
\* balance of a privileged account in either store, and no request of a
\* privileged user is turned to the insufficient-credits answer
C29_PrivilegedFloor ==
    [][/\ \A u \in Privileged :
             /\ user_credits'[u] >= user_credits[u]
             /\ FallbackCredits(inMemoryCredits', u)
                  >= FallbackCredits(inMemoryCredits, u)
       /\ \A r \in ReqIds :
             reqs'[r].pc = "insufficient" => Role(reqs'[r].user) # "admin"]_vars

\* C29 witness: with the store unreachable a privileged user other than
\* "admin", who has no fallback entry, has submitted a job and a
\* batch-process request that is past its credit gate, and the durable
\* balance is as it was
C29_Witness ==
    /\ ~dbUp
    /\ "boss" \notin DOMAIN inMemoryCredits
    /\ \E j \in DOMAIN jobs : jobs[j].user = "boss"
    /\ \E r \in ReqIds : reqs[r].kind = "batchProcess" /\ reqs[r].user = "boss"
                         /\ reqs[r].pc = "image"
    /\ user_credits["boss"] = AdminCredits

\* the transaction passed the balance check of deductCredits
PassedCheck(t) == txs[t].pc \in {"update", "insert", "commit", "committed"}

\* C30: a durable debit is all or nothing and serialized per account: a
\* transaction has its deduct row for its job id exactly when it committed,
\* every balance is the starting balance minus the logged debits, and no
\* two debits of one account pass the balance check on the same balance
C30_DebitAtomicSerialized ==
    /\ \A t \in TxIds :
          Cardinality(JobRows(t)) = IF txs[t].pc = "committed" THEN 1 ELSE 0
    /\ \A u \in Users :
          user_credits[u] # NoRow =>
              user_credits[u] = initial_credits[u]
                                - LogSum(Len(credit_transactions), u, "deduct")
    /\ \A t, o \in TxIds :
          (t # o /\ txs[t].username = txs[o].username
                 /\ PassedCheck(t) /\ PassedCheck(o))
              => txs[t].seen # txs[o].seen

\* C30 witness: on one account a debit has committed, a second one that saw
\* the balance it left holds the row lock, and a third waits at its SELECT
C30_Witness ==
    \E t, o, w \in TxIds :
        /\ txs[t].username = "user1" /\ txs[o].username = "user1"
        /\ txs[w].username = "user1"
        /\ txs[t].pc = "committed"
        /\ txs[o].pc = "insert"
        /\ txs[o].seen = txs[t].seen - txs[t].amount
        /\ txs[w].pc = "select"
        /\ dbUp

\* C31 as stated: a debit of a submission served by the fallback path has
\* the outcome the durable path gives for the same balance and amount: with
\* at least the amount the balance goes down by it and the job is started,
\* with less the balance stays and the caller gets the rejection, so the job
\* is not started and no success response names it
C31_FallbackSameOutcome ==
    [][\A r \in ReqIds :
          ( /\ reqs[r].kind = "createJob"
            /\ reqs[r].pc = "deduct"
            /\ reqs'[r] # reqs[r]
            /\ ~dbUp )
          => LET u == reqs[r].user
                 j == reqs[r].job
                 balance == FallbackCredits(getCreditsFallback(inMemoryCredits,
                                                u, Role(u)), u)
             IN  IF balance >= JobCost
                 THEN /\ FallbackCredits(inMemoryCredits', u) = balance - JobCost
                      /\ j \in DOMAIN exec'
                 ELSE /\ FallbackCredits(inMemoryCredits', u) = balance
                      /\ j \notin DOMAIN exec'
                      /\ j \notin DOMAIN responses']_vars

\* C32 as stated: for a standard user who has no account row and no
\* fallback entry, the first balance read returns the starter balance and
\* the first sufficiency check for one job passes, whether the durable store
\* is reachable or not
C32_LazyStarterBalance ==
    \A u \in Standard :
        (user_credits[u] = NoRow /\ u \notin DOMAIN inMemoryCredits) =>
            /\ getCurrentUserCredits(u, Role(u)) = StarterCredits
            /\ checkUserCredits(u, Role(u), JobCost)

\* the refund of job j was served by neither store
RefundFailed(j) ==
    j \in DOMAIN refunds /\ refunds[j].durable = 0 /\ refunds[j].fallback = 0

\* C33: when the refund of a failed job fails on both paths, the step
\* changes no balance and no status and takes the executor to the outcome
\* append; from then on the executor is at the append or past it and the
\* job's status is failed
C33_RefundFailureSwallowed ==
    /\ [][\A j \in DOMAIN exec :
             (~RefundFailed(j) /\ RefundFailed(j)')
                 => /\ exec'[j].pc = "record"
                    /\ UNCHANGED <<ledgerVars, jobs>>]_vars
    /\ [](\A j \in DOMAIN exec :
             RefundFailed(j) => /\ exec[j].pc \in {"record", "done"}
                                /\ jobs[j].status = "failed")

\* C33 witness: a failed job whose refund failed on both paths has had its
\* outcome append attempted and is still failed
C33_Witness ==
    \E j \in DOMAIN exec :
        /\ RefundFailed(j)
        /\ exec[j].pc = "done"
        /\ jobs[j].status = "failed"

\* the outcome rows of job j
OutcomeRows(j) == {h \in processing_history : h.job_id = j}

\* C34: a step of the executor in which the outcome append fails changes
\* neither the job store nor any balance or log row, and ends the executor
\* normally
C34_AppendFailureFrame ==
    [][\A j \in DOMAIN exec :
          ( /\ exec[j].pc = "record"
            /\ exec'[j].pc # "record"
            /\ processing_history' = processing_history )
          => /\ UNCHANGED <<jobs, detached, ledgerVars>>
             /\ exec'[j].pc = "done"]_vars

\* C34 witness: the executor of a completed job has ended, its outcome
\* append failed with the store reachable, and the job is still completed
\* with its result
C34_Witness ==
    \E j \in DOMAIN exec :
        /\ exec[j].pc = "done"
        /\ exec[j].success
        /\ JobRowExists(j)
        /\ OutcomeRows(j) = {}
        /\ jobs[j].status = "completed"
        /\ jobs[j].result = "output"

C35_AbsentJobSilentAbort ==
    /\ [](\A j \in DOMAIN detached :
             j \notin DOMAIN exec =>
                 /\ j \notin DOMAIN refunds
                 /\ OutcomeRows(j) = {}
                 /\ detached[j].status = "pending")
    /\ [][/\ \A r \in ReqIds :
               ( /\ reqs[r].kind = "createJob" /\ reqs[r].pc = "deduct"
                 /\ reqs[r].job \notin DOMAIN jobs
                 /\ reqs'[r] # reqs[r] )
               => /\ exec' = exec
                  /\ UNCHANGED <<jobs, detached, transitions, refunds,
                                 histVars, dbJobVars>>
          /\ \A j \in DOMAIN db_exec :
               ( /\ db_exec[j].pc = "select" /\ db_exec'[j].pc # "select"
                 /\ dbUp /\ j \notin DOMAIN db_jobs )
               => /\ db_exec'[j].pc = "done"
                  /\ UNCHANGED <<db_jobs, ledgerVars, histVars, jobVars,
                                 exec>>]_vars

\* a job deleted from the Map between its creation and its debit: the request
\* answered, the debit was attempted, and no activation exists for it; and an
\* activation over s302.jobs that returned from its SELECT without a row
C35_Witness ==
    /\ \E j \in DOMAIN detached :
          /\ j \in DOMAIN debits /\ j \in DOMAIN responses
          /\ j \notin DOMAIN exec
    /\ \E j \in DOMAIN db_exec :
          /\ db_exec[j].pc = "done" /\ db_exec[j].user_id = "-"
    /\ \A r \in ReqIds : reqs[r] = Idle

\* C36: the phases of one activation happen in order: while the Transformer
\* runs the job is processing; when the refund is attempted the terminal
\* status failed has been written; when the outcome append is attempted the
\* refund attempt of a failed job of a user other than "admin" has finished;
\* and every job a refund was applied for has the status failed
C36_PhasesInOrder ==
    \A j \in DOMAIN exec :
        /\ exec[j].pc = "transform" => Object(j).status = "processing"
        /\ exec[j].pc = "refund" => Object(j).status = "failed"
        /\ (exec[j].pc \in {"record", "done"} /\ ~exec[j].success
              /\ exec[j].user # "admin") => j \in DOMAIN refunds
        /\ j \in DOMAIN refunds =>
              exec[j].pc \in {"record", "done"} /\ Object(j).status = "failed"

\* C38: the two ledgers are never reconciled: a step that changes a durable
\* balance or log row leaves every fallback entry as it was, a step taken
\* while the durable store is unreachable changes no durable balance and no
\* log row, and the store becoming unreachable or reachable again changes
\* neither ledger
C38_NoReconciliation ==
    [][/\ <<user_credits, credit_transactions>>'
             # <<user_credits, credit_transactions>>
          => inMemoryCredits' = inMemoryCredits
       /\ ~dbUp => UNCHANGED <<user_credits, credit_transactions>>
       /\ dbUp' # dbUp => UNCHANGED ledgerVars]_vars

\* the store is reachable again after a refund the fallback ledger served, the
\* log holds a row of an operation the durable ledger served, and the owner's
\* two balances differ
C38_Witness ==
    /\ dbUp
    /\ credit_transactions # <<>>
    /\ \E j \in DOMAIN refunds :
          /\ refunds[j].fallback = 1
          /\ exec[j].user \in DOMAIN inMemoryCredits
          /\ user_credits[exec[j].user] # NoRow
          /\ user_credits[exec[j].user]
               # inMemoryCredits[exec[j].user].credits

\* C39: every job a refund was applied for had its admission debit taken by
\* the durable or the fallback ledger; a job whose debit neither ledger took
\* has no refund, so no refund adds credits no debit removed
C39_RefundAfterDebit ==
    \A j \in DOMAIN refunds :
        j \in DOMAIN debits /\ debits[j] \in {"durable", "fallback"}

\* C40: a debit of a standard owner's job that the durable or the fallback
\* ledger took is eventually followed by the job being completed or by a
\* refund attempt for the job, also when the job is deleted while pending or
\* processing
C40_DebitSettled ==
    \A j \in 1..MaxJobs :
        (j \in DOMAIN debits /\ debits[j] \in {"durable", "fallback"})
            ~> \/ j \in DOMAIN refunds
               \/ /\ j \in DOMAIN jobs \cup DOMAIN detached
                  /\ Object(j).status = "completed"

====
